---- MODULE Spec2Model ----
(***************************************************************************)
(* The classification decision pipeline of deciphish_api: the imperative   *)
(* form phishing_detector_base64, the chain form LangChainPhishingDetector,*)
(* the result cache / detection store, the brand registry with new-brand   *)
(* resolution, the brand-list cache behind the whitelist check and the     *)
(* admission gate of the /detect endpoint.                                  *)
(*                                                                         *)
(* One run slot is one request being served.  A step of a run is the code  *)
(* between two suspension points (await) of the asyncio event loop; the    *)
(* synchronous steps of the chain run on executor threads and so overlap.  *)
(* Strings that the code inspects (hosts, domains) are sequences of        *)
(* one-character strings; a reason is a sequence of text fragments.        *)
(***************************************************************************)
EXTENDS Integers, Sequences, FiniteSets, TLC

None == "None"

(***************************************************************************)
(* Text helpers                                                            *)
(***************************************************************************)

\* Python `p in s` on strings: contiguous containment; "" is in every string.
IsSubstring(p, s) ==
    \E i \in 0..(Len(s) - Len(p)) : SubSeq(s, i + 1, i + Len(p)) = p

\* str.lower() on one character.
LowerChar(c) ==
    CASE c = "A" -> "a" [] c = "B" -> "b" [] c = "C" -> "c" [] c = "D" -> "d"
      [] c = "E" -> "e" [] c = "F" -> "f" [] c = "G" -> "g" [] c = "H" -> "h"
      [] c = "I" -> "i" [] c = "J" -> "j" [] c = "K" -> "k" [] c = "L" -> "l"
      [] c = "M" -> "m" [] c = "N" -> "n" [] c = "O" -> "o" [] c = "P" -> "p"
      [] c = "Q" -> "q" [] c = "R" -> "r" [] c = "S" -> "s" [] c = "T" -> "t"
      [] c = "U" -> "u" [] c = "V" -> "v" [] c = "W" -> "w" [] c = "X" -> "x"
      [] c = "Y" -> "y" [] c = "Z" -> "z" [] OTHER -> c

\* str.lower()
Lower(s) == [i \in 1..Len(s) |-> LowerChar(s[i])]

\* Index of the first occurrence of character c in s at or after position i,
\* Len(s) + 1 when there is none.
RECURSIVE FindChar(_, _, _)
FindChar(s, c, i) ==
    IF i > Len(s) THEN Len(s) + 1
    ELSE IF s[i] = c THEN i
    ELSE FindChar(s, c, i + 1)

\* str.split(c): the pieces of s between occurrences of c.
RECURSIVE Split(_, _)
Split(s, c) ==
    LET k == FindChar(s, c, 1)
    IN  IF k > Len(s) THEN <<s>>
        ELSE <<SubSeq(s, 1, k - 1)>> \o Split(SubSeq(s, k + 1, Len(s)), c)

\* ".".join(parts)
RECURSIVE JoinDots(_)
JoinDots(parts) ==
    IF Len(parts) = 0 THEN <<>>
    ELSE IF Len(parts) = 1 THEN parts[1]
    ELSE parts[1] \o <<".">> \o JoinDots(Tail(parts))

Digits == {"0", "1", "2", "3", "4", "5", "6", "7", "8", "9"}
Consonants == {"b", "c", "d", "f", "g", "h", "j", "k", "l", "m", "n", "p",
               "q", "r", "s", "t", "v", "w", "x", "y", "z"}
Vowels == {"a", "e", "i", "o", "u"}

\* sum(1 for c in s if c in set)
CountIn(s, set) == Cardinality({i \in 1..Len(s) : s[i] \in set})

AllDigits(s) == \A i \in 1..Len(s) : s[i] \in Digits

(***************************************************************************)
(* URLs.  A URL is named by an identifier; Netloc gives its host.          *)
(***************************************************************************)

UrlTk  == "http://a.tk"
UrlPay == "https://pay.com"
UrlNew == "https://new.io"
UrlSub == "https://pay.com.x.io"
Urls == {UrlTk, UrlPay, UrlNew, UrlSub}

\* Further hosts for is_suspicious_domain: an IP literal with a port, a host
\* under a dynamic-DNS domain, two registrable names without a subdomain and
\* a host with a consonant-heavy subdomain.
UrlIp       == "http://10.0.0.1:80"
UrlDyn      == "http://x.duckdns.org"
UrlReddit   == "https://reddit.com"
UrlFacebook == "https://facebook.com"
UrlRandom   == "https://xkqzrt.new.io"
SuspectUrls == Urls \cup {UrlIp, UrlDyn, UrlReddit, UrlFacebook, UrlRandom}

\* urlparse(url).netloc
Netloc(url) ==
    CASE url = UrlTk  -> <<"a", ".", "t", "k">>
      [] url = UrlPay -> <<"p", "a", "y", ".", "c", "o", "m">>
      [] url = UrlNew -> <<"n", "e", "w", ".", "i", "o">>
      [] url = UrlSub -> <<"p", "a", "y", ".", "c", "o", "m", ".", "x", ".", "i", "o">>
      [] url = UrlIp  -> <<"1", "0", ".", "0", ".", "0", ".", "1", ":", "8", "0">>
      [] url = UrlDyn -> <<"x", ".", "d", "u", "c", "k", "d", "n", "s", ".", "o", "r", "g">>
      [] url = UrlReddit   -> <<"r", "e", "d", "d", "i", "t", ".", "c", "o", "m">>
      [] url = UrlFacebook -> <<"f", "a", "c", "e", "b", "o", "o", "k", ".", "c", "o", "m">>
      [] url = UrlRandom   -> <<"x", "k", "q", "z", "r", "t", ".", "n", "e", "w", ".", "i", "o">>

\* app.core.utils.extract_domain: the host of the URL.
extract_domain(url) == Netloc(url)

DomPay == <<"p", "a", "y", ".", "c", "o", "m">>
DomNew == <<"n", "e", "w", ".", "i", "o">>
NoDomain == <<>>

suspicious_patterns == <<
    <<"d", "u", "c", "k", "d", "n", "s", ".", "o", "r", "g">>,
    <<"n", "g", "r", "o", "k", ".", "i", "o">>,
    <<"n", "g", "r", "o", "k", ".", "c", "o", "m">>,
    <<"l", "o", "c", "a", "l", "t", "u", "n", "n", "e", "l", ".", "m", "e">>,
    <<"s", "e", "r", "v", "e", "o", ".", "n", "e", "t">>,
    <<"p", "a", "g", "e", "k", "i", "t", "e", ".", "m", "e">>,
    <<"h", "e", "r", "o", "k", "u", "a", "p", "p", ".", "c", "o", "m">>,
    <<"t", "k">>,
    <<"m", "l">>,
    <<"g", "a">>,
    <<"c", "f">>,
    <<"f", "r", "e", "e", "n", "o", "m", ".", "c", "o", "m">>,
    <<"b", "i", "t", ".", "l", "y">>,
    <<"t", "i", "n", "y", "u", "r", "l", ".", "c", "o", "m">>,
    <<"s", "h", "o", "r", "t", ".", "l", "i", "n", "k">>,
    <<"t", ".", "c", "o">> >>

allow_words == {
    <<"w", "w", "w">>,
    <<"m", "a", "i", "l">>,
    <<"a", "p", "i">>,
    <<"a", "p", "p">>,
    <<"m", "o", "b", "i", "l", "e">>,
    <<"s", "e", "c", "u", "r", "e">>,
    <<"l", "o", "g", "i", "n">>,
    <<"a", "d", "m", "i", "n">>,
    <<"s", "h", "o", "p">>,
    <<"s", "t", "o", "r", "e">> }

\* re.match(r'^(\d{1,3}\.){3}\d{1,3}(:\d+)?$', domain)
ip_pattern(domain) ==
    LET hp    == Split(domain, ":")
        parts == Split(hp[1], ".")
    IN  /\ Len(hp) \in {1, 2}
        /\ Len(hp) = 2 => (Len(hp[2]) >= 1 /\ AllDigits(hp[2]))
        /\ Len(parts) = 4
        /\ \A i \in 1..4 : Len(parts[i]) \in 1..3 /\ AllDigits(parts[i])

\* The reason texts of is_suspicious_domain.
ReasonIp      == <<"IP address">>
ReasonRandom  == <<"random subdomain">>
ReasonPattern(p) == <<"suspicious domain pattern: ">> \o p

\* The first listed pattern contained in the host, 0 when none.
RECURSIVE FirstPattern(_, _)
FirstPattern(domain, i) ==
    IF i > Len(suspicious_patterns) THEN 0
    ELSE IF IsSubstring(suspicious_patterns[i], domain) THEN i
    ELSE FirstPattern(domain, i + 1)

\* is_suspicious_domain(url) -> (is_suspicious, reason)
is_suspicious_domain(url) ==
    LET domain       == Lower(Netloc(url))
        domain_parts == Split(domain, ".")
        subdomain    == domain_parts[1]
        k            == FirstPattern(domain, 1)
    IN  IF ip_pattern(domain) THEN <<TRUE, ReasonIp>>
        ELSE IF k # 0 THEN <<TRUE, ReasonPattern(suspicious_patterns[k])>>
        ELSE IF /\ Len(domain_parts) >= 2
                /\ Len(subdomain) >= 6
                /\ ~ \E w \in allow_words : IsSubstring(w, subdomain)
                /\ \/ CountIn(subdomain, Consonants) > CountIn(subdomain, Vowels) * 2
                   \/ Len(subdomain) >= 8
             THEN <<TRUE, ReasonRandom>>
        ELSE <<FALSE, <<>>>>

\* domain_match(url, brand_domain): brand_domain in extract_domain(url)
domain_match(url, brand_domain) == IsSubstring(brand_domain, extract_domain(url))

\* extract_root_domain(url): tldextract's domain + "." + suffix, the host
\* itself when either is empty.  The hosts of the model have a one-label
\* public suffix.
extract_root_domain(url) ==
    LET netloc == extract_domain(url)
        labels == Split(netloc, ".")
        n      == Len(labels)
    IN  IF n >= 2 /\ Len(labels[n - 1]) > 0 /\ Len(labels[n]) > 0
        THEN JoinDots(<<labels[n - 1], labels[n]>>)
        ELSE netloc

(***************************************************************************)
(* Bounds and program constants                                            *)
(***************************************************************************)

\* settings.CACHE_TTL_HOURS
CACHE_TTL_HOURS == 24
\* BrandLoader._cache_ttl, in seconds
BRAND_CACHE_TTL == 3600
\* settings.CONCURRENT_DETECTION_LIMIT is a Settings field read from the
\* environment (10 when unset).  The model bounds it below the number of
\* request slots so that the semaphore can actually be exhausted.
CONCURRENT_DETECTION_LIMIT == 1

\* The clock advances in steps of TickHours up to MaxTime (hours).
TickHours == 12
MaxTime == 24
\* Requests served in one behaviour.
MaxCalls == 2

Runs == {1, 2}
\* user_id: NoUser is the NULL of an anonymous caller.
NoUser == 0
Users == {NoUser, 7}
BrandPay == "Pay"
BrandNew == "NewCo"

\* Outcomes of the collaborators.
CrpOutcomes  == {"true", "false", "exc"}
\* detect_brand_from_favicon: a brand of the index, None (below the
\* threshold), an exception; "empty" = no favicon supplied, no call.
FavOutcomes  == {"empty", None, "exc", BrandPay}
\* text_brand_lookup: a brand name, None, or an exception
TextOutcomes == {None, "exc", BrandPay, BrandNew}
\* find_best_domain: a reachable domain, or None (the empty domain here:
\* the caller stores `official_domain or ""`).
DiscOutcomes == {NoDomain, DomPay, DomNew}

NotCalled == [kind |-> "not_called"]
NoRecord  == [kind |-> "none"]
NoRow     == [id |-> 0]
NoResult  == [kind |-> "none"]

Idle == [pc |-> "idle"]

VARIABLES
    registry,          \* tb_brand_info: set of rows
    next_brand_id,     \* tb_brand_info auto-increment
    unique_name,       \* whether the schema declares brand_name UNIQUE
    store,             \* phishing_detections: set of rows
    next_id,           \* phishing_detections auto-increment
    now,               \* wall clock, hours
    brands_cache,      \* BrandLoader._brands_cache: <<>> is None, <<list>> a list
    last_update_time,  \* BrandLoader._last_update_time, -1 is None
    permits,           \* detection_semaphore._value
    calls,             \* requests accepted so far
    run                \* per request slot: the locals of the handler

vars == <<registry, next_brand_id, unique_name, store, next_id, now,
          brands_cache, last_update_time, permits, calls, run>>

(***************************************************************************)
(* Result cache / detection store                                          *)
(***************************************************************************)

\* A variant without ORDER BY created_at DESC: any live row may come back.
get_cached_result_unordered(url, user_id) ==
    {row \in store : /\ row.url = url
                     /\ row.user_id = user_id
                     /\ row.created_at > now - CACHE_TTL_HOURS}
\* get_cached_result(url, user_id): the rows the SELECT may return (the
\* newest live row of that url and user; ties are broken by the database).
get_cached_result(url, user_id) ==
    LET cutoff_time == now - CACHE_TTL_HOURS
        live == {row \in store : /\ row.url = url
                                 /\ row.user_id = user_id
                                 /\ row.created_at > cutoff_time}
    IN  {row \in live : \A o \in live : o.created_at <= row.created_at}

\* The result_dict get_cached_result builds from a row.
CachedResult(row) ==
    [is_phish       |-> row.is_phish,
     reason         |-> row.reason,
     detected_brand |-> row.detected_brand,
     crp_detected   |-> row.is_crp,
     is_crp         |-> row.is_crp,
     from_cache     |-> TRUE,
     detection_id   |-> row.id]

\* A variant in which a positive CRP classification decides the verdict.
prepare_final_result_crp_decides(is_phish, reason, detected_brand, crp_detected) ==
    [is_phish       |-> IF crp_detected THEN 1 ELSE is_phish,
     reason         |-> reason,
     detected_brand |-> detected_brand,
     crp_detected   |-> crp_detected,
     is_crp         |-> crp_detected,
     from_cache     |-> FALSE,
     detection_id   |-> 0]
\* A result dict after prepare_final_result.
prepare_final_result(is_phish, reason, detected_brand, crp_detected) ==
    [is_phish       |-> is_phish,
     reason         |-> reason,
     detected_brand |-> detected_brand,
     crp_detected   |-> crp_detected,
     is_crp         |-> crp_detected,
     from_cache     |-> FALSE,
     detection_id   |-> 0]

\* A variant that always stores under the final URL.
url_to_store_final(rec) == rec.final_url
\* save_detection_result: the original URL on a redirect, else the final URL.
url_to_store(rec) == IF rec.has_redirect THEN rec.url ELSE rec.final_url

\* save_detection_result: the row inserted for a run's result.
StoredRow(rec, id) ==
    LET reason == IF rec.has_redirect /\ rec.url # rec.final_url
                  THEN rec.result.reason \o <<" (redirected to ", rec.final_url, ")">>
                  ELSE rec.result.reason
    IN  [id             |-> id,
         user_id        |-> rec.user_id,
         url            |-> url_to_store(rec),
         is_phish       |-> rec.result.is_phish,
         reason         |-> reason,
         detected_brand |-> IF rec.result.detected_brand = None THEN ""
                            ELSE rec.result.detected_brand,
         is_crp         |-> rec.result.crp_detected,
         created_at     |-> now]

(***************************************************************************)
(* Brand registry                                                          *)
(***************************************************************************)

\* check_brand_exists(name): the rows fetchone() may return, as dicts.
check_brand_exists(name) ==
    {[name |-> b.brand_name, domain |-> b.official_domain] :
        b \in {x \in registry : x.brand_name = name}}

\* The brand list a SELECT over tb_brand_info yields.
LoadBrands == {[name |-> b.brand_name, domain |-> b.official_domain] : b \in registry}

\* BrandLoader.get_brand_list: the cache is served while younger than the TTL.
CacheFresh ==
    /\ brands_cache # <<>>
    /\ last_update_time # -1
    /\ (now - last_update_time) * 3600 < BRAND_CACHE_TTL

get_brand_list == IF CacheFresh THEN brands_cache[1] ELSE LoadBrands

\* check_whitelist(url): the brands whose domain equals the root domain.
check_whitelist(url) ==
    {b \in get_brand_list :
        Len(b.domain) > 0 /\ Lower(b.domain) = extract_root_domain(url)}

(***************************************************************************)
(* Request slots                                                           *)
(***************************************************************************)

ImperativeEndpoints == {"detect", "check_phish_simple", "detect_phishing_manual"}
ChainEndpoints      == {"detect_v2", "check_phish_simple_v2"}
Endpoints           == ImperativeEndpoints \cup ChainEndpoints

Form(ep) == IF ep \in ChainEndpoints THEN "chain" ELSE "imperative"

\* The locals of a handler that has just been entered.
NewRun(ep, url, user_id) ==
    [pc           |-> "start",
     endpoint     |-> ep,
     form         |-> Form(ep),
     url          |-> url,          \* original_url
     user_id      |-> user_id,
     final_url    |-> url,
     has_redirect |-> FALSE,
     redirect_count |-> 0,
     redirect_chain |-> <<>>,
     fetch_error  |-> FALSE,        \* the fetch of get_final_url raised
     suspicious   |-> <<FALSE, <<>>>>,
     holds_gate   |-> FALSE,
     redetect_id  |-> 0,            \* /redetect: the row to update
     cache_hit    |-> "none",       \* which lookup answered: endpoint / inner
     lookup_scope |-> <<>>,         \* the user ids the run looked up under
     lookup_key   |-> <<>>,         \* the URLs the run looked up
     hit_row      |-> NoRow,
     crp_calls    |-> 0,
     crp_out      |-> "not_called",
     fav_out      |-> "not_called",
     text_out     |-> "not_called",
     wl           |-> NotCalled,
     db1          |-> NotCalled,
     disc         |-> <<"not_called">>,
     existing     |-> "not_called",
     db2          |-> NotCalled,
     save_success |-> "not_called",
     result       |-> NoResult,
     stored       |-> NoRow,
     save_attempted |-> FALSE]      \* save_detection_result was called

Upd(r, rec) == run' = [run EXCEPT ![r] = rec]

\* A variant in which leaving the block keeps the permit.
ReleasedNever(r) == permits
\* Leaving `async with detection_semaphore` gives the permit back.
Released(r) == IF run[r].holds_gate THEN permits + 1 ELSE permits

\* Where control is once phishing_detector_base64 has returned: at the
\* end of the handler, or in redetect_phishing before the update.
Returned(rec) == IF rec.redetect_id # 0 THEN "update" ELSE "done"

\* CRP classification inside try/except: an exception is recorded as False.
CrpCaught(c) == (c = "true")

(***************************************************************************)
(* Endpoints                                                               *)
(***************************************************************************)

\* A request arrives in a free slot (the previous response has been
\* sent).  All endpoints except /detect-phishing-manual/ first
\* look the requested URL up in the cache under the caller's user id.
Start(r, ep, url, user_id) ==
    /\ run[r].pc \in {"idle", "done", "raised"}
    /\ calls < MaxCalls
    /\ ep = "detect_phishing_manual" => user_id = NoUser
    /\ calls' = calls + 1
    /\ LET rec  == NewRun(ep, url, user_id)
           hits == IF ep = "detect_phishing_manual" THEN {}
                   ELSE get_cached_result(url, user_id)
           looked == IF ep = "detect_phishing_manual" THEN <<>> ELSE <<user_id>>
           keys == IF ep = "detect_phishing_manual" THEN <<>> ELSE <<url>>
           next == CASE ep = "detect" -> "gate"
                     [] ep = "check_phish_simple_v2" -> "c_whitelist"
                     [] OTHER -> "resolve"
       IN  \/ /\ hits = {}
              /\ Upd(r, [rec EXCEPT !.pc = next, !.lookup_scope = looked,
                                     !.lookup_key = keys])
           \/ \E row \in hits :
                Upd(r, [rec EXCEPT
                    !.pc = "done",
                    !.cache_hit = "endpoint",
                    !.lookup_scope = looked,
                    !.lookup_key = keys,
                    !.hit_row = row,
                    !.result = CachedResult(row)])
    /\ UNCHANGED <<registry, next_brand_id, unique_name, store, next_id, now,
                   brands_cache, last_update_time, permits>>

\* process_phishing_detection_with_semaphore: async with detection_semaphore
AcquireGate(r) ==
    /\ run[r].pc = "gate"
    /\ permits > 0
    /\ permits' = permits - 1
    /\ Upd(r, [run[r] EXCEPT !.pc = "resolve", !.holds_gate = TRUE])
    /\ UNCHANGED <<registry, next_brand_id, unique_name, store, next_id, now,
                   brands_cache, last_update_time, calls>>

\* The suspicious_original / suspicious_reason entries of the
\* redirect_analysis get_final_url builds for each URL.
redirect_analysis == [url \in SuspectUrls |-> is_suspicious_domain(url)]

\* What session.get gives get_final_url: response.url and the URLs of
\* response.history, or an exception (ClientError, timeout).
Response(f, history) == [error |-> FALSE, url |-> f, history |-> history]
FetchError == [error |-> TRUE, url |-> "", history |-> <<>>]

\* The response of a fetch that ends on f, going there in one hop if f is
\* not the requested URL.
Fetched(url, f) == Response(f, IF f # url THEN <<url>> ELSE <<>>)

\* A variant that records the chain of every answered fetch.
final_url_and_analysis_always_chain(url, response) ==
    IF response.error
    THEN [final_url |-> url, has_redirect |-> FALSE, redirect_count |-> 0,
          redirect_chain |-> <<>>]
    ELSE [final_url      |-> response.url,
          has_redirect   |-> response.url # url,
          redirect_count |-> Len(response.history),
          redirect_chain |-> <<url>> \o response.history \o <<response.url>>]
\* The final URL and the has_redirect, redirect_count and redirect_chain
\* entries of redirect_analysis that get_final_url returns.
final_url_and_analysis(url, response) ==
    IF response.error \/ response.url = url
    THEN [final_url |-> url, has_redirect |-> FALSE, redirect_count |-> 0,
          redirect_chain |-> <<>>]
    ELSE [final_url      |-> response.url,
          has_redirect   |-> TRUE,
          redirect_count |-> Len(response.history),
          redirect_chain |-> <<url>> \o response.history \o <<response.url>>]

\* get_final_url(url) with the given outcome of the fetch.
get_final_url_of(r, response) ==
    /\ run[r].pc = "resolve"
    /\ LET res == final_url_and_analysis(run[r].url, response)
       IN  Upd(r, [run[r] EXCEPT
                !.pc = IF run[r].form = "chain" THEN "c_whitelist" ELSE "cache",
                !.final_url = res.final_url,
                !.has_redirect = res.has_redirect,
                !.redirect_count = res.redirect_count,
                !.redirect_chain = res.redirect_chain,
                !.fetch_error = response.error,
                !.suspicious = redirect_analysis[run[r].url]])
    /\ UNCHANGED <<registry, next_brand_id, unique_name, store, next_id, now,
                   brands_cache, last_update_time, permits, calls>>

\* get_final_url(url): the fetch ends on some URL f.  (A failed fetch
\* returns what a fetch that ends on the requested URL returns.)
get_final_url(r, f) == get_final_url_of(r, Fetched(run[r].url, f))

\* phishing_detector_base64, step 0-2: the cache lookup of the pipeline.
CacheLookup(r) ==
    /\ run[r].pc = "cache"
    /\ LET rec == run[r]
           cache_url == IF rec.has_redirect THEN rec.url ELSE rec.final_url
           hits == get_cached_result(cache_url, NoUser)
           suspicious_redirect_detected == rec.suspicious[1] /\ rec.has_redirect
           looked == Append(rec.lookup_scope, NoUser)
           keys == Append(rec.lookup_key, cache_url)
       IN  \/ /\ hits = {}
              /\ Upd(r, [rec EXCEPT
                    !.pc = IF suspicious_redirect_detected THEN "suspicious"
                           ELSE "whitelist",
                    !.lookup_scope = looked,
                    !.lookup_key = keys])
              /\ permits' = permits
           \/ /\ \E row \in hits :
                    Upd(r, [rec EXCEPT
                        !.pc = Returned(rec),
                        !.cache_hit = "inner",
                        !.lookup_scope = looked,
                        !.lookup_key = keys,
                        !.hit_row = row,
                        !.holds_gate = FALSE,
                        !.result = CachedResult(row)])
              /\ permits' = Released(r)
    /\ UNCHANGED <<registry, next_brand_id, unique_name, store, next_id, now,
                   brands_cache, last_update_time, calls>>

(***************************************************************************)
(* The imperative form: phishing_detector_base64                           *)
(***************************************************************************)

IsBrand(x) == x \notin {"empty", None, "exc", "not_called"}

\* A variant that consults the text lookup whatever the favicon gave.
TextChoicesAlways(fav, caught) == TextOutcomes
\* The text lookup is consulted only after a favicon miss.
TextChoices(fav, caught) ==
    IF IsBrand(fav) \/ (fav = "exc" /\ ~caught) THEN {"not_called"} ELSE TextOutcomes

\* A run that raises to its caller; the gate's context manager still exits.
Raise(r, rec) ==
    /\ Upd(r, [rec EXCEPT !.pc = "raised", !.holds_gate = FALSE])
    /\ permits' = Released(r)

\* Step 1: the suspicious-redirect branch.  CRP, favicon and text lookups are
\* synchronous and each sits in its own try/except.
SuspiciousRedirect(r, crp, fav, text) ==
    /\ run[r].pc = "suspicious"
    /\ text \in TextChoices(fav, TRUE)
    /\ LET rec == run[r]
           crp_detected == CrpCaught(crp)
           detected_brand == IF IsBrand(fav) THEN fav
                             ELSE IF IsBrand(text) THEN text
                             ELSE None
           reason == <<"suspicious_redirect:", " ">> \o rec.suspicious[2]
       IN  Upd(r, [rec EXCEPT
                !.pc = "save",
                !.crp_calls = @ + 1,
                !.crp_out = crp,
                !.fav_out = fav,
                !.text_out = text,
                !.result = prepare_final_result(1, reason, detected_brand, crp_detected)])
    /\ UNCHANGED <<registry, next_brand_id, unique_name, store, next_id, now,
                   brands_cache, last_update_time, permits, calls>>

\* The brand-list cache after a get_brand_list call.
BrandsCacheAfter == IF CacheFresh THEN brands_cache ELSE <<LoadBrands>>
LastUpdateAfter  == IF CacheFresh THEN last_update_time ELSE now

\* Step 2: the whitelist check; a whitelisted URL ends the run (crp_detected
\* keeps its initial value False).
Whitelisted(r) ==
    /\ run[r].pc = "whitelist"
    /\ LET rec == run[r]
           wls == check_whitelist(rec.final_url)
       IN  \/ /\ wls = {}
              /\ Upd(r, [rec EXCEPT !.pc = "models", !.wl = NoRecord])
           \/ \E b \in wls :
                Upd(r, [rec EXCEPT
                    !.pc = "save",
                    !.wl = b,
                    !.result = prepare_final_result(0, <<"whitelisted">>, b.name, FALSE)])
    /\ brands_cache' = BrandsCacheAfter
    /\ last_update_time' = LastUpdateAfter
    /\ UNCHANGED <<registry, next_brand_id, unique_name, store, next_id, now,
                   permits, calls>>

\* The domain the favicon index's metadata holds for a brand.
FaviconDomain(name) == CASE name = BrandPay -> DomPay

\* The verdict of the favicon path.
FaviconVerdict(url, fav, crp_detected) ==
    IF domain_match(url, FaviconDomain(fav))
    THEN prepare_final_result(0, <<"favicon_brand_domain_match">>, fav, crp_detected)
    ELSE prepare_final_result(1, <<"favicon_brand_domain_mismatch">>, fav, crp_detected)

\* Steps 2-4: CRP (in try/except), favicon lookup and text lookup (neither in
\* a try/except), all synchronous.
BrandFusion(r, crp, fav, text) ==
    /\ run[r].pc = "models"
    /\ text \in TextChoices(fav, FALSE)
    /\ LET rec == [run[r] EXCEPT
                      !.crp_calls = @ + 1,
                      !.crp_out = crp,
                      !.fav_out = fav,
                      !.text_out = text]
           crp_detected == CrpCaught(crp)
       IN  IF fav = "exc" \/ text = "exc"
           THEN Raise(r, rec)
           ELSE /\ permits' = permits
                /\ IF IsBrand(fav)
                   THEN Upd(r, [rec EXCEPT
                            !.pc = "save",
                            !.result = FaviconVerdict(rec.final_url, fav, crp_detected)])
                   ELSE IF IsBrand(text)
                   THEN Upd(r, [rec EXCEPT !.pc = "db_check"])
                   ELSE Upd(r, [rec EXCEPT
                            !.pc = "save",
                            !.result = prepare_final_result(
                                0, <<"no_brand_detected">>, None, crp_detected)])
    /\ UNCHANGED <<registry, next_brand_id, unique_name, store, next_id, now,
                   brands_cache, last_update_time, calls>>

\* check_brand_and_domain_match: the brand has a registry record.
check_brand_and_domain_match(url, detected_brand, db_brand_info, crp_detected) ==
    IF domain_match(url, db_brand_info.domain)
    THEN prepare_final_result(0, <<"brand_domain_match">>, detected_brand, crp_detected)
    ELSE prepare_final_result(1, <<"brand_domain_mismatch">>, detected_brand, crp_detected)

\* _final_decision_step, text branch with a registry record.
ChainTextVerdict(url, detected_brand, db_brand_info, crp_detected) ==
    IF domain_match(url, db_brand_info.domain)
    THEN prepare_final_result(0, <<"text_brand_domain_match">>, detected_brand, crp_detected)
    ELSE prepare_final_result(1, <<"text_brand_domain_mismatch">>, detected_brand, crp_detected)

\* The registry lookup of the text path (both forms): a record gives the
\* verdict, no record starts new-brand resolution.
RegistryLookup(r) ==
    /\ run[r].pc = "db_check"
    /\ LET rec == run[r]
           dbs == check_brand_exists(rec.text_out)
           crp_detected == CrpCaught(rec.crp_out)
       IN  \/ /\ dbs = {}
              /\ Upd(r, [rec EXCEPT !.pc = "nb_check", !.db1 = NoRecord])
           \/ \E db \in dbs :
                Upd(r, [rec EXCEPT
                    !.pc = "save",
                    !.db1 = db,
                    !.result = IF rec.form = "chain"
                               THEN ChainTextVerdict(rec.final_url, rec.text_out, db, crp_detected)
                               ELSE check_brand_and_domain_match(
                                        rec.final_url, rec.text_out, db, crp_detected)])
    /\ UNCHANGED <<registry, next_brand_id, unique_name, store, next_id, now,
                   brands_cache, last_update_time, permits, calls>>

(***************************************************************************)
(* New-brand resolution: handle_new_brand_detection -> save_brand_info     *)
(***************************************************************************)

\* save_brand_info, first half: domain discovery, then the existence check
\* (by name, and by domain when one was found).
save_brand_info_check(r, d) ==
    /\ run[r].pc = "nb_check"
    /\ LET rec == run[r]
           existing == \E b \in registry :
                          \/ b.brand_name = rec.text_out
                          \/ (Len(d) > 0 /\ b.official_domain = d)
       IN  Upd(r, [rec EXCEPT
                !.pc = IF existing THEN "nb_recheck" ELSE "nb_insert",
                !.disc = d,
                !.existing = IF existing THEN "true" ELSE "false",
                !.save_success = IF existing THEN "true" ELSE "not_called"])
    /\ UNCHANGED <<registry, next_brand_id, unique_name, store, next_id, now,
                   brands_cache, last_update_time, permits, calls>>

\* An INSERT that takes the place of the records of the same name.
save_brand_info_insert_replaces(r) ==
    /\ run[r].pc = "nb_insert"
    /\ LET rec == run[r]
           clash == unique_name /\ \E b \in registry : b.brand_name = rec.text_out
           row == [brand_id        |-> next_brand_id,
                   brand_name      |-> rec.text_out,
                   official_domain |-> rec.disc,
                   brand_alias     |-> <<>>]
       IN  IF clash
           THEN /\ Upd(r, [rec EXCEPT !.pc = "nb_recheck", !.save_success = "false"])
                /\ UNCHANGED <<registry, next_brand_id>>
           ELSE /\ Upd(r, [rec EXCEPT !.pc = "nb_recheck", !.save_success = "true"])
                /\ registry' = {b \in registry : b.brand_name # rec.text_out} \cup {row}
                /\ next_brand_id' = next_brand_id + 1
    /\ UNCHANGED <<unique_name, store, next_id, now,
                   brands_cache, last_update_time, permits, calls>>

\* save_brand_info, second half: INSERT and commit.  Under a UNIQUE
\* brand_name the insert of a second row raises, which the except clause
\* turns into False.
save_brand_info_insert(r) ==
    /\ run[r].pc = "nb_insert"
    /\ LET rec == run[r]
           clash == unique_name /\ \E b \in registry : b.brand_name = rec.text_out
           row == [brand_id        |-> next_brand_id,
                   brand_name      |-> rec.text_out,
                   official_domain |-> rec.disc,
                   brand_alias     |-> <<>>]
       IN  IF clash
           THEN /\ Upd(r, [rec EXCEPT !.pc = "nb_recheck", !.save_success = "false"])
                /\ UNCHANGED <<registry, next_brand_id>>
           ELSE /\ Upd(r, [rec EXCEPT !.pc = "nb_recheck", !.save_success = "true"])
                /\ registry' = registry \cup {row}
                /\ next_brand_id' = next_brand_id + 1
    /\ UNCHANGED <<unique_name, store, next_id, now,
                   brands_cache, last_update_time, permits, calls>>

\* The verdict of handle_new_brand_detection once the registry was re-read.
NewBrandVerdict(url, detected_brand, official_domain, save_success, detection_method, crp_detected) ==
    LET url_domain == extract_domain(url)
    IN  IF Len(official_domain) > 0 /\ Len(url_domain) > 0
        THEN IF IsSubstring(official_domain, url_domain)
             THEN prepare_final_result(
                      0, <<detection_method, "_new_brand_detected_and_domain_match">>,
                      detected_brand, crp_detected)
             ELSE prepare_final_result(
                      1, <<detection_method, "_new_brand_detected_but_domain_mismatch">>,
                      detected_brand, crp_detected)
        ELSE prepare_final_result(
                 0,
                 IF save_success THEN <<detection_method, "_new_brand_detected_and_saved">>
                 ELSE <<detection_method, "_new_brand_detected">>,
                 detected_brand, crp_detected)

\* handle_new_brand_detection after save_new_brand_to_database: the registry
\* is read again; without a record the text lookup's own domain (the URL's
\* domain) stands in for the official domain.
handle_new_brand_detection(r) ==
    /\ run[r].pc = "nb_recheck"
    /\ LET rec == run[r]
           dbs == check_brand_exists(rec.text_out)
           detected_domain == extract_domain(rec.final_url)
           crp_detected == CrpCaught(rec.crp_out)
       IN  \/ /\ dbs = {}
              /\ Upd(r, [rec EXCEPT
                    !.pc = "save",
                    !.db2 = NoRecord,
                    !.result = NewBrandVerdict(rec.final_url, rec.text_out,
                                   detected_domain, rec.save_success = "true", "text",
                                   crp_detected)])
           \/ \E db \in dbs :
                Upd(r, [rec EXCEPT
                    !.pc = "save",
                    !.db2 = db,
                    !.result = NewBrandVerdict(rec.final_url, rec.text_out,
                                   db.domain, rec.save_success = "true", "text",
                                   crp_detected)])
    /\ UNCHANGED <<registry, next_brand_id, unique_name, store, next_id, now,
                   brands_cache, last_update_time, permits, calls>>

(***************************************************************************)
(* PersistenceSink                                                         *)
(***************************************************************************)

\* A variant that keeps one row per URL and user (an upsert).
InsertRowUpsert(rows, row) ==
    {o \in rows : o.url # row.url \/ o.user_id # row.user_id} \cup {row}
\* save_detection_result: INSERT INTO phishing_detections adds a row.
InsertRow(rows, row) == rows \cup {row}

\* capture_and_save_result with save_to_db = True: one row is inserted and
\* its id is added to the result; the handler then returns.
capture_and_save_result(r) ==
    /\ run[r].pc = "save"
    /\ run[r].redetect_id = 0
    /\ LET rec == run[r]
           row == StoredRow(rec, next_id)
       IN  /\ store' = InsertRow(store, row)
           /\ next_id' = next_id + 1
           /\ Upd(r, [rec EXCEPT
                    !.pc = "done",
                    !.holds_gate = FALSE,
                    !.stored = row,
                    !.save_attempted = TRUE,
                    !.result = [rec.result EXCEPT !.detection_id = next_id]])
    /\ permits' = Released(r)
    /\ UNCHANGED <<registry, next_brand_id, unique_name, now,
                   brands_cache, last_update_time, calls>>

\* Time passes.
Tick ==
    /\ now + TickHours <= MaxTime
    /\ now' = now + TickHours
    /\ UNCHANGED <<registry, next_brand_id, unique_name, store, next_id,
                   brands_cache, last_update_time, permits, calls, run>>

(***************************************************************************)
(* The chain form: LangChainPhishingDetector                               *)
(***************************************************************************)

\* _check_whitelist_step and the first RunnableBranch.
_check_whitelist_step(r) ==
    /\ run[r].pc = "c_whitelist"
    /\ LET rec == run[r]
           wls == check_whitelist(rec.final_url)
       IN  \/ /\ wls = {}
              /\ Upd(r, [rec EXCEPT !.pc = "c_crp", !.wl = NoRecord])
           \/ \E b \in wls :
                Upd(r, [rec EXCEPT !.pc = "c_wl_result", !.wl = b])
    /\ brands_cache' = BrandsCacheAfter
    /\ last_update_time' = LastUpdateAfter
    /\ UNCHANGED <<registry, next_brand_id, unique_name, store, next_id, now,
                   permits, calls>>

\* _whitelist_result: CRP is classified (try/except) and recorded.
_whitelist_result(r, crp) ==
    /\ run[r].pc = "c_wl_result"
    /\ LET rec == run[r]
       IN  Upd(r, [rec EXCEPT
                !.pc = "save",
                !.crp_calls = @ + 1,
                !.crp_out = crp,
                !.result = prepare_final_result(
                               0, <<"whitelisted">>, rec.wl.name, CrpCaught(crp))])
    /\ UNCHANGED <<registry, next_brand_id, unique_name, store, next_id, now,
                   brands_cache, last_update_time, permits, calls>>

\* _crp_analysis_step returns (it ran on an executor thread).
_crp_analysis_step(r, crp) ==
    /\ run[r].pc = "c_crp"
    /\ Upd(r, [run[r] EXCEPT !.pc = "c_fav", !.crp_calls = @ + 1, !.crp_out = crp])
    /\ UNCHANGED <<registry, next_brand_id, unique_name, store, next_id, now,
                   brands_cache, last_update_time, permits, calls>>

\* _favicon_analysis_step returns; on a brand _final_decision_step gives the
\* favicon verdict, otherwise the text step is next.
_favicon_analysis_step(r, fav) ==
    /\ run[r].pc = "c_fav"
    /\ LET rec == [run[r] EXCEPT !.fav_out = fav]
       IN  IF IsBrand(fav)
           THEN Upd(r, [rec EXCEPT
                    !.pc = "save",
                    !.result = FaviconVerdict(rec.final_url, fav, CrpCaught(rec.crp_out))])
           ELSE Upd(r, [rec EXCEPT !.pc = "c_text"])
    /\ UNCHANGED <<registry, next_brand_id, unique_name, store, next_id, now,
                   brands_cache, last_update_time, permits, calls>>

\* _text_analysis_step returns; _final_decision_step then looks the brand up
\* in the registry or reports no brand.
_text_analysis_step(r, text) ==
    /\ run[r].pc = "c_text"
    /\ LET rec == [run[r] EXCEPT !.text_out = text]
       IN  IF IsBrand(text)
           THEN Upd(r, [rec EXCEPT !.pc = "db_check"])
           ELSE Upd(r, [rec EXCEPT
                    !.pc = "save",
                    !.result = prepare_final_result(
                                   0, <<"no_brand_detected">>, None,
                                   CrpCaught(rec.crp_out))])
    /\ UNCHANGED <<registry, next_brand_id, unique_name, store, next_id, now,
                   brands_cache, last_update_time, permits, calls>>

(***************************************************************************)
(* Collaborator failures                                                   *)
(***************************************************************************)

\* What a run records for a collaborator that raised.
Failed == [kind |-> "exc"]

\* check_whitelist when get_brand_list has to load and the load fails:
\* BrandDataError leaves phishing_detector_base64, which has no try/except
\* around the whitelist check.
check_whitelist_fails(r) ==
    /\ run[r].pc = "whitelist"
    /\ ~CacheFresh
    /\ Raise(r, [run[r] EXCEPT !.wl = Failed])
    /\ UNCHANGED <<registry, next_brand_id, unique_name, store, next_id, now,
                   brands_cache, last_update_time, calls>>

\* _check_whitelist_step catches the same failure and returns None.
_check_whitelist_step_fails(r) ==
    /\ run[r].pc = "c_whitelist"
    /\ ~CacheFresh
    /\ Upd(r, [run[r] EXCEPT !.pc = "c_crp", !.wl = Failed])
    /\ UNCHANGED <<registry, next_brand_id, unique_name, store, next_id, now,
                   brands_cache, last_update_time, permits, calls>>

\* check_brand_exists catches a failed query and returns None, which its
\* caller takes for a brand without a record.
check_brand_exists_fails(r) ==
    /\ run[r].pc = "db_check"
    /\ Upd(r, [run[r] EXCEPT !.pc = "nb_check", !.db1 = Failed])
    /\ UNCHANGED <<registry, next_brand_id, unique_name, store, next_id, now,
                   brands_cache, last_update_time, permits, calls>>

\* save_brand_info when domain discovery, the existence check or the INSERT
\* raises: the except clause returns False.
save_brand_info_fails(r) ==
    /\ run[r].pc \in {"nb_check", "nb_insert"}
    /\ Upd(r, [run[r] EXCEPT !.pc = "nb_recheck", !.save_success = "false"])
    /\ UNCHANGED <<registry, next_brand_id, unique_name, store, next_id, now,
                   brands_cache, last_update_time, permits, calls>>

\* A variant in which the failed INSERT leaves capture_and_save_result as an
\* exception.
capture_and_save_result_raises(r) ==
    /\ run[r].pc = "save"
    /\ run[r].redetect_id = 0
    /\ Raise(r, [run[r] EXCEPT !.save_attempted = TRUE])
    /\ UNCHANGED <<registry, next_brand_id, unique_name, store, next_id, now,
                   brands_cache, last_update_time, calls>>
\* capture_and_save_result when the INSERT of save_detection_result fails:
\* the exception is caught there, None comes back and the result gets no
\* detection_id.
capture_and_save_result_fails(r) ==
    /\ run[r].pc = "save"
    /\ run[r].redetect_id = 0
    /\ Upd(r, [run[r] EXCEPT !.pc = "done", !.holds_gate = FALSE,
                             !.save_attempted = TRUE])
    /\ permits' = Released(r)
    /\ UNCHANGED <<registry, next_brand_id, unique_name, store, next_id, now,
                   brands_cache, last_update_time, calls>>

Failures(r) ==
    \/ check_whitelist_fails(r)
    \/ _check_whitelist_step_fails(r)
    \/ check_brand_exists_fails(r)
    \/ save_brand_info_fails(r)
    \/ capture_and_save_result_fails(r)


(***************************************************************************)
(* Re-detection: redetect_phishing                                         *)
(***************************************************************************)

\* get_detection_by_id: an administrator reads any row, a signed-in user
\* their own rows, an anonymous caller the rows without a user.
get_detection_by_id(detection_id, user_id, is_admin) ==
    {row \in store : /\ row.id = detection_id
                     /\ is_admin \/ row.user_id = user_id}

\* redetect_phishing up to the call of phishing_detector_base64, which gets
\* the row's URL, user_id = None and save_to_db = False.  Without a readable
\* row the handler answers 404.
redetect_phishing(r, detection_id, user_id, is_admin) ==
    /\ run[r].pc \in {"idle", "done", "raised"}
    /\ calls < MaxCalls
    /\ calls' = calls + 1
    /\ LET rows == get_detection_by_id(detection_id, user_id, is_admin)
       IN  \/ /\ rows = {}
              /\ Upd(r, [NewRun("redetect", "", user_id) EXCEPT
                        !.pc = "raised", !.redetect_id = detection_id])
           \/ \E row \in rows :
                Upd(r, [NewRun("redetect", row.url, NoUser) EXCEPT
                        !.pc = "resolve", !.redetect_id = detection_id])
    /\ UNCHANGED <<registry, next_brand_id, unique_name, store, next_id, now,
                   brands_cache, last_update_time, permits>>

\* capture_and_save_result with save_to_db = False: nothing is inserted.
capture_and_save_result_unsaved(r) ==
    /\ run[r].pc = "save"
    /\ run[r].redetect_id # 0
    /\ Upd(r, [run[r] EXCEPT !.pc = "update"])
    /\ UNCHANGED <<registry, next_brand_id, unique_name, store, next_id, now,
                   brands_cache, last_update_time, permits, calls>>

\* detection_result.get("crp_detected", False): the dict get_cached_result
\* builds has the key is_crp only.
crp_detected_or_false(result) ==
    IF result.from_cache THEN FALSE ELSE result.crp_detected

\* update_detection_result: the UPDATE ... WHERE id = :detection_id.
UpdatedRow(row, rec) ==
    LET reason == IF rec.has_redirect /\ rec.url # rec.final_url
                  THEN rec.result.reason \o <<" (redirected to ", rec.final_url, ")">>
                  ELSE rec.result.reason
    IN  [row EXCEPT
            !.is_phish = rec.result.is_phish,
            !.reason = reason,
            !.detected_brand = IF rec.result.detected_brand = None THEN ""
                               ELSE rec.result.detected_brand,
            !.is_crp = crp_detected_or_false(rec.result)]

\* redetect_phishing, steps 4 and 5: the row is updated and the response
\* is built from the result of phishing_detector_base64.
update_detection_result(r) ==
    /\ run[r].pc = "update"
    /\ LET rec == run[r]
       IN  /\ store' = {IF row.id = rec.redetect_id THEN UpdatedRow(row, rec)
                        ELSE row : row \in store}
           /\ Upd(r, [rec EXCEPT
                    !.pc = "done",
                    !.result = [rec.result EXCEPT
                                    !.from_cache = FALSE,
                                    !.detection_id = rec.redetect_id]])
    /\ UNCHANGED <<registry, next_brand_id, unique_name, next_id, now,
                   brands_cache, last_update_time, permits, calls>>

\* update_detection_result when the UPDATE fails: False comes back and the
\* handler answers 500.
update_detection_result_fails(r) ==
    /\ run[r].pc = "update"
    /\ Upd(r, [run[r] EXCEPT !.pc = "raised"])
    /\ UNCHANGED <<registry, next_brand_id, unique_name, store, next_id, now,
                   brands_cache, last_update_time, permits, calls>>

\* The steps of /redetect that no other endpoint has.
Redetect(r) ==
    \/ capture_and_save_result_unsaved(r)
    \/ update_detection_result(r)
    \/ update_detection_result_fails(r)


(***************************************************************************)
(* Specification                                                           *)
(***************************************************************************)

InitRegistry ==
    {[brand_id |-> 1, brand_name |-> BrandPay, official_domain |-> DomPay,
      brand_alias |-> <<>>]}

Init ==
    /\ registry = InitRegistry
    /\ next_brand_id = 2
    /\ unique_name \in BOOLEAN
    /\ store = {}
    /\ next_id = 1
    /\ now = 0
    /\ brands_cache = <<>>
    /\ last_update_time = -1
    /\ permits = CONCURRENT_DETECTION_LIMIT
    /\ calls = 0
    /\ run = [r \in Runs |-> Idle]

\* phishing_detector_base64 after redirect resolution, with the collaborator
\* outcomes drawn from the given sets.
Pipeline(r, crps, favs, texts) ==
    \/ CacheLookup(r)
    \/ Whitelisted(r)
    \/ \E crp \in crps, fav \in favs, text \in texts \cup {"not_called"} :
          BrandFusion(r, crp, fav, text)
    \/ RegistryLookup(r)
    \/ capture_and_save_result(r)

\* handle_new_brand_detection with the domain discovery drawn from discs.
NewBrand(r, discs) ==
    \/ \E d \in discs : save_brand_info_check(r, d)
    \/ save_brand_info_insert(r)
    \/ handle_new_brand_detection(r)

\* The steps of the chain that the imperative form does not share.
Chain(r, crps, favs, texts) ==
    \/ _check_whitelist_step(r)
    \/ \E crp \in crps : _whitelist_result(r, crp)
    \/ \E crp \in crps : _crp_analysis_step(r, crp)
    \/ \E fav \in favs : _favicon_analysis_step(r, fav)
    \/ \E text \in texts : _text_analysis_step(r, text)

Suspicious(r, crps, favs, texts) ==
    \E crp \in crps, fav \in favs, text \in texts \cup {"not_called"} :
        SuspiciousRedirect(r, crp, fav, text)

(***************************************************************************)
(* SpecRedirect: requests served one after the other on an endpoint of     *)
(* each form that resolves redirects, for a suspicious entry URL and a     *)
(* registered destination.                                                 *)
(***************************************************************************)

RedirectUrls == {UrlTk, UrlPay}

NextRedirect ==
    \/ \E ep \in {"detect_phishing_manual", "detect_v2"}, url \in RedirectUrls :
          Start(1, ep, url, NoUser)
    \/ \E f \in RedirectUrls : get_final_url(1, f)
    \/ Suspicious(1, CrpOutcomes, FavOutcomes, TextOutcomes)
    \/ Pipeline(1, CrpOutcomes, FavOutcomes, TextOutcomes)
    \/ NewBrand(1, DiscOutcomes)
    \/ Chain(1, CrpOutcomes, FavOutcomes, TextOutcomes)

SpecRedirect == Init /\ [][NextRedirect]_vars

\* C1. Suspicious-redirect precedence: a run whose entry URL is classified
\* suspicious and whose fetch ended on a different URL returns is_phish = 1
\* with a reason that starts with "suspicious_redirect:", in either form and
\* whatever the cache and the registry hold.
C1_SuspiciousRedirectPrecedence ==
    \A r \in Runs :
        (run[r].pc = "done" /\ run[r].suspicious[1] /\ run[r].has_redirect)
        => /\ run[r].result.is_phish = 1
           /\ run[r].result.reason[1] = "suspicious_redirect:"

(***************************************************************************)
(* SpecForms: two requests in flight at once, each on an endpoint of       *)
(* either form, on URLs that are fetched without a redirect.               *)
(***************************************************************************)

FormEndpoints == {"detect_phishing_manual", "detect_v2"}
FormUrls == {UrlPay, UrlNew}
FormFavs == {None, "exc", BrandPay}
FormTexts == {None, BrandPay, BrandNew}
FormDiscs == {NoDomain, DomNew}

NextForms ==
    \E r \in Runs :
        \/ \E ep \in FormEndpoints, url \in FormUrls : Start(r, ep, url, NoUser)
        \/ get_final_url(r, run[r].url)
        \/ Pipeline(r, CrpOutcomes, FormFavs, FormTexts)
        \/ NewBrand(r, FormDiscs)
        \/ Chain(r, CrpOutcomes, FormFavs, FormTexts)

SpecForms == Init /\ [][NextForms]_vars

\* Both slots hold a finished run that was not answered from the cache, the
\* first of the imperative form and the second of the chain form.
BothForms ==
    /\ run[1].pc = "done" /\ run[2].pc = "done"
    /\ run[1].cache_hit = "none" /\ run[2].cache_hit = "none"
    /\ run[1].form = "imperative" /\ run[2].form = "chain"

SameInputs ==
    /\ run[1].url = run[2].url
    /\ run[1].final_url = run[2].final_url
    /\ run[1].has_redirect = run[2].has_redirect

\* Every collaborator gave the two runs the same output.
SameCollaborators ==
    /\ run[1].wl = run[2].wl
    /\ CrpCaught(run[1].crp_out) = CrpCaught(run[2].crp_out)
    /\ run[1].fav_out = run[2].fav_out
    /\ run[1].text_out = run[2].text_out
    /\ run[1].db1 = run[2].db1
    /\ run[1].disc = run[2].disc
    /\ run[1].existing = run[2].existing
    /\ run[1].db2 = run[2].db2
    /\ run[1].save_success = run[2].save_success

\* C2. Equivalence of the two execution forms: an imperative run and a chain
\* run on the same input, neither answered from the cache, whose collaborators
\* returned the same outputs, return the same is_phish, reason, detected_brand
\* and crp_detected.
C2_FormsEquivalent ==
    (BothForms /\ SameInputs /\ SameCollaborators)
    => /\ run[1].result.is_phish = run[2].result.is_phish
       /\ run[1].result.reason = run[2].result.reason
       /\ run[1].result.detected_brand = run[2].result.detected_brand
       /\ run[1].result.crp_detected = run[2].result.crp_detected

(***************************************************************************)
(* SpecCache: two callers, anonymous or signed in, send requests that may  *)
(* overlap to an endpoint of each form that looks the URL up before it     *)
(* runs the pipeline; fetches may redirect and the clock advances.         *)
(***************************************************************************)

CacheEndpoints == {"check_phish_simple", "detect_v2"}
CacheUrls == {UrlPay, UrlNew}
CacheCrps == {"false"}
CacheFavs == {None}
CacheTexts == {None, BrandPay}

NextCache ==
    \/ \E r \in Runs :
          \/ \E ep \in CacheEndpoints, url \in CacheUrls, u \in Users :
                Start(r, ep, url, u)
          \/ \E f \in CacheUrls : get_final_url(r, f)
          \/ Pipeline(r, CacheCrps, CacheFavs, CacheTexts)
          \/ Chain(r, CacheCrps, CacheFavs, CacheTexts)
    \/ Tick

SpecCache == Init /\ [][NextCache]_vars

\* C3. Cache scope isolation: a call under scope S is never answered with a
\* row stored under another scope, at the endpoint lookup or at the lookup
\* inside phishing_detector_base64, and every lookup of a run uses the scope
\* the run stores its verdict under.
C3_CacheScopeIsolation ==
    \A r \in Runs :
        run[r].pc = "done"
        => /\ run[r].cache_hit # "none"
              => run[r].hit_row.user_id = run[r].user_id
           /\ run[r].stored # NoRow
              => \A i \in 1..Len(run[r].lookup_scope) :
                    run[r].lookup_scope[i] = run[r].stored.user_id

\* The verdict fields of a stored row.
Verdict(row) == <<row.is_phish, row.reason, row.detected_brand, row.is_crp>>

\* A finished run that was redirected and whose stored row is within the TTL.
RedirectStored(r) ==
    /\ run[r].pc = "done"
    /\ run[r].has_redirect
    /\ run[r].stored # NoRow
    /\ run[r].stored.created_at > now - CACHE_TTL_HOURS

\* The rows of the key and scope of r that are at least as recent as its own.
LaterRows(r) ==
    {row \in store : /\ row.url = run[r].url
                     /\ row.user_id = run[r].user_id
                     /\ row.created_at >= run[r].stored.created_at
                     /\ row # run[r].stored}

\* The key a run stores under is its entry URL when the fetch was
\* redirected and the final URL otherwise, and is the key it looked up.
StoreKeyIsLookupKey ==
    \A r \in Runs :
        (run[r].pc = "done" /\ run[r].stored # NoRow)
        => /\ run[r].stored.url = IF run[r].has_redirect THEN run[r].url
                                  ELSE run[r].final_url
           /\ \A i \in 1..Len(run[r].lookup_key) :
                 run[r].lookup_key[i] = run[r].stored.url

\* Every row that enters the store is put under the cache key of the run
\* that stores it, so a URL that was only ever a redirect destination has no
\* row and its lookup misses.
StoredUnderOwnKey ==
    \A row \in store' \ store :
        \E r \in Runs :
            /\ run[r].pc = "save"
            /\ row.url = IF run[r].has_redirect THEN run[r].url
                         ELSE run[r].final_url
            /\ run[r].has_redirect => row.url # run[r].final_url

\* C4 as stated: within the TTL a lookup of the entry URL A under the run's
\* scope returns exactly the verdict that run stored.
C4_LookupReturnsThatVerdict ==
    \A r \in Runs :
        RedirectStored(r)
        => LET hits == get_cached_result(run[r].url, run[r].user_id)
           IN  /\ hits # {}
               /\ \A row \in hits : Verdict(row) = Verdict(run[r].stored)

\* C4. Cache key asymmetry: after a redirected run on A under scope S has
\* stored its verdict, a lookup of A under S within the TTL returns the most
\* recent verdict stored under (A, S), which is that run's verdict unless
\* another run stored under (A, S) at the same time or later; no row is ever
\* stored under a redirect destination by the run that was redirected to it;
\* and the key a run stores under is the key it looked up.
C4_CacheKeyAsymmetry ==
    /\ [](\A r \in Runs :
            RedirectStored(r)
            => LET hits == get_cached_result(run[r].url, run[r].user_id)
               IN  /\ hits # {}
                   /\ hits \subseteq LaterRows(r) \cup {run[r].stored}
                   /\ LaterRows(r) = {} => hits = {run[r].stored})
    /\ [](StoreKeyIsLookupKey)
    /\ [][StoredUnderOwnKey]_vars

\* A redirected run's row is returned for the entry URL twelve hours later
\* while the destination URL misses.
C4_Witness ==
    \E r \in Runs :
        /\ RedirectStored(r)
        /\ now > run[r].stored.created_at
        /\ get_cached_result(run[r].url, run[r].user_id) = {run[r].stored}
        /\ get_cached_result(run[r].final_url, run[r].user_id) = {}

(***************************************************************************)
(* SpecBrand: two overlapping requests whose text lookup names a brand,    *)
(* registered or not; domain discovery may find nothing, a fresh domain or *)
(* the domain of a registered brand.                                       *)
(***************************************************************************)

BrandEndpoints == {"detect_phishing_manual", "detect_v2"}
BrandUrls == {UrlPay, UrlNew}
BrandCrps == {"false"}
BrandFavs == {None}
BrandTexts == {BrandPay, BrandNew}

NextBrand ==
    \E r \in Runs :
        \/ \E ep \in BrandEndpoints, url \in BrandUrls : Start(r, ep, url, NoUser)
        \/ get_final_url(r, run[r].url)
        \/ Pipeline(r, BrandCrps, BrandFavs, BrandTexts)
        \/ Chain(r, BrandCrps, BrandFavs, BrandTexts)
        \/ NewBrand(r, DiscOutcomes)

SpecBrand == Init /\ [][NextBrand]_vars

\* Both runs have finished new-brand resolution for the same name, which
\* the registry did not hold when either of them looked it up.
BothResolved ==
    /\ run[1].pc = "done" /\ run[2].pc = "done"
    /\ run[1].existing # "not_called" /\ run[2].existing # "not_called"
    /\ run[1].text_out = run[2].text_out
    /\ run[1].db1 = NoRecord /\ run[2].db1 = NoRecord

\* C5. New-brand idempotence under concurrency: after two runs resolved the
\* same unregistered brand name N at the same time, the registry holds
\* exactly one record for N and both runs read the same official domain.
C5_NewBrandIdempotence ==
    BothResolved
    => /\ Cardinality({b \in registry : b.brand_name = run[1].text_out}) = 1
       /\ run[1].db2 = run[2].db2

\* The root domain of the URL the whitelist check sees is, case-insensitively,
\* the official domain of a record the registry has held from the start.
RegisteredFromStart(url) ==
    \E b \in InitRegistry :
        /\ Len(b.official_domain) > 0
        /\ Lower(b.official_domain) = Lower(extract_root_domain(url))

\* C6. Idempotence of the whitelist fast path: every call for a URL whose root
\* domain is the official domain of a registry record, and that is not a
\* suspicious redirect, returns is_phish = 0 with reason "whitelisted",
\* whatever earlier calls stored in the cache.  The calls looked at are those
\* that fetched the URL, so that the URL the whitelist is checked on is known.
C6_WhitelistIdempotent ==
    \A r \in Runs :
        (/\ run[r].pc = "done"
         /\ run[r].cache_hit # "endpoint"
         /\ ~(run[r].suspicious[1] /\ run[r].has_redirect)
         /\ RegisteredFromStart(run[r].final_url))
        => /\ run[r].result.is_phish = 0
           /\ run[r].result.reason = <<"whitelisted">>

(***************************************************************************)
(* SpecFavicon: overlapping requests on both forms, with every outcome of  *)
(* the favicon and the text lookup, for a whitelisted page, an unknown     *)
(* page and a page whose host only contains a registered domain.           *)
(***************************************************************************)

FaviconEndpoints == {"detect_phishing_manual", "detect_v2"}
FaviconUrls == {UrlPay, UrlNew, UrlSub}
FaviconCrps == {"false"}

NextFavicon ==
    \E r \in Runs :
        \/ \E ep \in FaviconEndpoints, url \in FaviconUrls :
              Start(r, ep, url, NoUser)
        \/ get_final_url(r, run[r].url)
        \/ Pipeline(r, FaviconCrps, FavOutcomes, TextOutcomes)
        \/ Chain(r, FaviconCrps, FavOutcomes, TextOutcomes)
        \/ NewBrand(r, {DomNew})

SpecFavicon == Init /\ [][NextFavicon]_vars

\* A finished run that reached brand fusion and whose favicon lookup
\* returned a brand.
FaviconHit(r) ==
    /\ run[r].pc = "done"
    /\ run[r].cache_hit = "none"
    /\ run[r].wl = NoRecord
    /\ IsBrand(run[r].fav_out)

\* C7. Favicon pre-emption: in a run that reaches brand fusion and whose
\* favicon lookup returns a brand, the text lookup is not consulted, the
\* detected brand is the favicon's and the reason is
\* favicon_brand_domain_match or favicon_brand_domain_mismatch according to
\* the favicon brand's domain, in both forms.
C7_FaviconPreemption ==
    \A r \in Runs :
        FaviconHit(r)
        => /\ run[r].text_out = "not_called"
           /\ run[r].result.detected_brand = run[r].fav_out
           /\ run[r].result.reason =
                 IF domain_match(run[r].final_url, FaviconDomain(run[r].fav_out))
                 THEN <<"favicon_brand_domain_match">>
                 ELSE <<"favicon_brand_domain_mismatch">>

\* An imperative run and a chain run both ended on the favicon path, one on a
\* matching and one on a mismatching domain.
C7_Witness ==
    /\ FaviconHit(1) /\ FaviconHit(2)
    /\ run[1].form # run[2].form
    /\ run[1].result.is_phish # run[2].result.is_phish

(***************************************************************************)
(* SpecGate: two overlapping requests on /detect, which enters the         *)
(* pipeline under detection_semaphore, and on /detect-v2, which does not.  *)
(***************************************************************************)

GateEndpoints == {"detect", "detect_v2"}
GateUrls == {UrlPay, UrlNew}
GateCrps == {"false"}
GateFavs == {None}
GateTexts == {None, BrandPay}

NextGate ==
    \E r \in Runs :
        \/ \E ep \in GateEndpoints, url \in GateUrls : Start(r, ep, url, NoUser)
        \/ AcquireGate(r)
        \/ get_final_url(r, run[r].url)
        \/ Pipeline(r, GateCrps, GateFavs, GateTexts)
        \/ Chain(r, GateCrps, GateFavs, GateTexts)

SpecGate == Init /\ [][NextGate]_vars

\* The run is inside a model invocation: the chain's CRP, favicon and text
\* steps are plain functions, which ainvoke runs on executor threads, so a
\* run stays in one while other runs proceed.  (The imperative form calls
\* the models on the event loop, inside the one step BrandFusion.)
InModelStage(r) == run[r].pc \in {"c_crp", "c_fav", "c_text"}

\* C8. Bounded concurrency gate: at most CONCURRENT_DETECTION_LIMIT runs are
\* inside their model-invocation stages at once, whichever entry point
\* started them.
C8_BoundedGate ==
    Cardinality({r \in Runs : InModelStage(r)}) <= CONCURRENT_DETECTION_LIMIT

\* C9. CRP exactly once per run: a run that returns without having been
\* answered from the cache has invoked the CRP classifier exactly once, on
\* every path and in both forms, and its crp_detected is the result of that
\* invocation (False when the classifier raised).
C9_CrpExactlyOnce ==
    \A r \in Runs :
        (run[r].pc = "done" /\ run[r].cache_hit = "none")
        => /\ run[r].crp_calls = 1
           /\ run[r].result.crp_detected = CrpCaught(run[r].crp_out)

\* Two finished runs of the same form on the same input, neither answered
\* from the cache.
SameCall ==
    /\ run[1].pc \in {"done", "raised"} /\ run[2].pc \in {"done", "raised"}
    /\ run[1].cache_hit = "none" /\ run[2].cache_hit = "none"
    /\ run[1].form = run[2].form
    /\ SameInputs

\* Wherever both runs consulted a collaborator other than the CRP classifier
\* it gave both the same output.
SameOtherCollaborators ==
    /\ run[1].wl = NotCalled \/ run[2].wl = NotCalled \/ run[1].wl = run[2].wl
    /\ \/ "not_called" \in {run[1].fav_out, run[2].fav_out}
       \/ run[1].fav_out = run[2].fav_out
    /\ \/ "not_called" \in {run[1].text_out, run[2].text_out}
       \/ run[1].text_out = run[2].text_out
    /\ run[1].db1 = NotCalled \/ run[2].db1 = NotCalled \/ run[1].db1 = run[2].db1
    /\ \/ <<"not_called">> \in {run[1].disc, run[2].disc}
       \/ run[1].disc = run[2].disc
    /\ \/ "not_called" \in {run[1].existing, run[2].existing}
       \/ run[1].existing = run[2].existing
    /\ \/ "not_called" \in {run[1].save_success, run[2].save_success}
       \/ run[1].save_success = run[2].save_success
    /\ run[1].db2 = NotCalled \/ run[2].db2 = NotCalled \/ run[1].db2 = run[2].db2

\* The INSERT a run sent to the registry, if any.
RegistryWrite(r) ==
    IF run[r].existing = "false"
    THEN <<run[r].text_out, run[r].disc, run[r].save_success>>
    ELSE <<>>

\* C10. CRP is advisory only: two runs of the same call that agree on the
\* output of every collaborator but the CRP classifier both return or both
\* raise, return the same is_phish, reason and detected_brand, and send the
\* same write to the registry, whatever the classifier did in each.
C10_CrpAdvisoryOnly ==
    (SameCall /\ SameOtherCollaborators)
    => /\ run[1].pc = run[2].pc
       /\ RegistryWrite(1) = RegistryWrite(2)
       /\ run[1].pc = "done"
          => /\ run[1].result.is_phish = run[2].result.is_phish
             /\ run[1].result.reason = run[2].result.reason
             /\ run[1].result.detected_brand = run[2].result.detected_brand

\* Two such runs that ended on a phishing verdict, one with a positive
\* classification and one whose classifier raised.
C10_Witness ==
    /\ SameCall /\ SameOtherCollaborators
    /\ run[1].pc = "done"
    /\ run[1].crp_out = "true" /\ run[2].crp_out = "exc"
    /\ run[1].result.crp_detected /\ ~run[2].result.crp_detected
    /\ run[1].result.is_phish = 1

(***************************************************************************)
(* SpecFailure: requests served one after the other on both forms, where   *)
(* every collaborator may fail.                                            *)
(***************************************************************************)

FailureEndpoints == {"detect_phishing_manual", "detect_v2"}
FailureUrls == {UrlPay, UrlNew}
FailureCrps == {"false", "exc"}
FailureDiscs == {DomNew}

NextFailure ==
    \/ \E ep \in FailureEndpoints, url \in FailureUrls : Start(1, ep, url, NoUser)
    \/ get_final_url(1, run[1].url)
    \/ Pipeline(1, FailureCrps, FavOutcomes, TextOutcomes)
    \/ Chain(1, FailureCrps, FavOutcomes, TextOutcomes)
    \/ NewBrand(1, FailureDiscs)
    \/ Failures(1)

SpecFailure == Init /\ [][NextFailure]_vars

\* C11. No collaborator failure aborts a run: whatever collaborators fail
\* after the cache lookup, the run does not raise to its caller, and a run
\* that has returned without a cache hit has attempted the persistence
\* insert, in both forms.
C11_NoFailureAborts ==
    \A r \in Runs :
        /\ run[r].pc # "raised"
        /\ (run[r].pc = "done" /\ run[r].cache_hit = "none")
           => run[r].save_attempted

\* The sources a new-brand reason can name.
ReasonSources == {"favicon", "text"}

\* The reasons of the closed set other than suspicious_redirect:<reason>.
ClosedReasons ==
    {<<"whitelisted">>, <<"no_brand_detected">>,
     <<"favicon_brand_domain_match">>, <<"favicon_brand_domain_mismatch">>,
     <<"text_brand_domain_match">>, <<"text_brand_domain_mismatch">>}
    \cup {<<src, suffix>> :
            src \in ReasonSources,
            suffix \in {"_new_brand_detected_and_domain_match",
                        "_new_brand_detected_but_domain_mismatch",
                        "_new_brand_detected",
                        "_new_brand_detected_and_saved"}}

MismatchReasons ==
    {<<"favicon_brand_domain_mismatch">>, <<"text_brand_domain_mismatch">>}
    \cup {<<src, "_new_brand_detected_but_domain_mismatch">> : src \in ReasonSources}

IsSuspiciousReason(reason) == reason[1] = "suspicious_redirect:"

\* C12. Closed reason set: the reason of every verdict a non-cached run
\* returns, in either form, is suspicious_redirect:<reason> or one of the
\* listed reasons, and is_phish is 1 exactly for a suspicious_redirect or a
\* mismatch reason.
C12_ClosedReasonSet ==
    \A r \in Runs :
        (run[r].pc = "done" /\ run[r].cache_hit = "none")
        => LET reason == run[r].result.reason
           IN  /\ IsSuspiciousReason(reason) \/ reason \in ClosedReasons
               /\ run[r].result.is_phish = 1
                  <=> (IsSuspiciousReason(reason) \/ reason \in MismatchReasons)

\* A finished, cache-missing run whose text lookup named a brand for which
\* the registry had no record.
NewBrandRun(r) ==
    /\ run[r].pc = "done"
    /\ run[r].cache_hit = "none"
    /\ IsBrand(run[r].text_out)
    /\ run[r].db1 = NoRecord
    /\ run[r].disc # <<"not_called">>

NeutralReasons ==
    {<<"text", "_new_brand_detected">>, <<"text", "_new_brand_detected_and_saved">>}

\* C13. New-brand resolution outcome: (a) when discovery found a domain D the
\* registry holds a record for N with official domain D, and the verdict is
\* is_phish=0 / text_new_brand_detected_and_domain_match when D is contained
\* in the URL's domain and is_phish=1 /
\* text_new_brand_detected_but_domain_mismatch otherwise; (b) when discovery
\* found nothing, or the registry holds no domain for N afterwards, the
\* verdict is the neutral is_phish=0 one.
C13_NewBrandOutcome ==
    \A r \in Runs :
        NewBrandRun(r)
        => LET N == run[r].text_out
               D == run[r].disc
               res == run[r].result
               noDomainAfter == \/ run[r].db2 = NoRecord
                                \/ Len(run[r].db2.domain) = 0
           IN  /\ Len(D) > 0
                  => /\ \E b \in registry : b.brand_name = N /\ b.official_domain = D
                     /\ IF IsSubstring(D, extract_domain(run[r].final_url))
                        THEN /\ res.is_phish = 0
                             /\ res.reason = <<"text", "_new_brand_detected_and_domain_match">>
                        ELSE /\ res.is_phish = 1
                             /\ res.reason = <<"text", "_new_brand_detected_but_domain_mismatch">>
               /\ (Len(D) = 0 \/ noDomainAfter)
                  => /\ res.is_phish = 0
                     /\ res.reason \in NeutralReasons

(***************************************************************************)
(* SpecStore: two callers, anonymous or signed in, send requests that may  *)
(* overlap; the INSERT of a run may fail and the clock advances.           *)
(***************************************************************************)

StoreEndpoints == {"check_phish_simple", "detect_v2"}
StoreUrls == {UrlPay, UrlNew}
StoreCrps == {"false"}
StoreFavs == {None}
StoreTexts == {BrandPay}

NextStore ==
    \/ \E r \in Runs :
          \/ \E ep \in StoreEndpoints, url \in StoreUrls, u \in Users :
                Start(r, ep, url, u)
          \/ \E f \in StoreUrls : get_final_url(r, f)
          \/ Pipeline(r, StoreCrps, StoreFavs, StoreTexts)
          \/ Chain(r, StoreCrps, StoreFavs, StoreTexts)
          \/ capture_and_save_result_fails(r)
    \/ Tick

SpecStore == Init /\ [][NextStore]_vars

\* A step in which the call in slot r returns to its caller.
Returns(r) == run'[r] # run[r] /\ run'[r].pc = "done"

\* C14. One persisted row per run: a call that misses the cache and whose
\* insert succeeds adds exactly one row and returns that row's fresh id, a
\* call answered from the cache adds none, rows are added only by such
\* inserts, and no step of a call changes or removes an existing row.
C14_OneRowPerRun ==
    [][ /\ store \subseteq store'
        /\ Cardinality(store' \ store) <= 1
        /\ store' # store
           => \E r \in Runs : Returns(r) /\ run'[r].stored \in store' \ store
        /\ \A r \in Runs :
              Returns(r)
              => /\ run'[r].cache_hit # "none" => store' = store
                 /\ (run'[r].cache_hit = "none" /\ run'[r].stored # NoRow)
                    => /\ store' \ store = {run'[r].stored}
                       /\ run'[r].result.detection_id = run'[r].stored.id
                       /\ \A o \in store : o.id # run'[r].stored.id
      ]_vars

\* A second row of one URL and user has been stored next to the first.
C14_Witness ==
    \E r \in Runs :
        /\ run[r].pc = "done"
        /\ run[r].stored \in store
        /\ \E o \in store : /\ o.id # run[r].stored.id
                             /\ o.url = run[r].stored.url
                             /\ o.user_id = run[r].stored.user_id

(***************************************************************************)
(* SpecRedetect: callers store verdicts through /check_phish_simple and    *)
(* ask for rows to be re-detected, as themselves or as an administrator.   *)
(***************************************************************************)

RedetectEndpoints == {"check_phish_simple"}
RedetectUrls == {UrlPay, UrlNew}
RedetectCrps == {"true", "false"}
RedetectFavs == {None}
RedetectTexts == {None, BrandPay}
RedetectIds == {1, 2}

NextRedetect ==
    \/ \E r \in Runs :
          \/ \E ep \in RedetectEndpoints, url \in RedetectUrls, u \in Users :
                Start(r, ep, url, u)
          \/ \E id \in RedetectIds, u \in Users, is_admin \in BOOLEAN :
                redetect_phishing(r, id, u, is_admin)
          \/ \E f \in RedetectUrls : get_final_url(r, f)
          \/ Pipeline(r, RedetectCrps, RedetectFavs, RedetectTexts)
          \/ Redetect(r)
    \/ Tick

SpecRedetect == Init /\ [][NextRedetect]_vars

\* The detected_brand column of a verdict's brand.
BrandColumn(detected_brand) == IF detected_brand = None THEN "" ELSE detected_brand

\* The step in which /redetect in slot r updates its row and answers.
Updates(r) == run[r].pc = "update" /\ run'[r].pc = "done"

\* C15. Re-detection updates in place: the update of row id inserts no row,
\* changes no other row, keeps the row's id, URL, user and creation time
\* and sets is_phish, detected_brand and is_crp to those of the verdict
\* /redetect answers with; every other step of /redetect, the 404 answer
\* included, leaves the store unchanged.
C15_RedetectInPlace ==
    [][ \A r \in Runs :
          /\ Updates(r)
             => /\ Cardinality(store') = Cardinality(store)
                /\ \A o \in store : o.id # run[r].redetect_id => o \in store'
                /\ \E old \in store, new \in store' :
                      /\ old.id = run[r].redetect_id
                      /\ new.id = old.id
                      /\ new.url = old.url
                      /\ new.user_id = old.user_id
                      /\ new.created_at = old.created_at
                      /\ new.is_phish = run'[r].result.is_phish
                      /\ new.detected_brand = BrandColumn(run'[r].result.detected_brand)
                      /\ new.is_crp = run'[r].result.is_crp
          /\ (run'[r] # run[r] /\ run'[r].endpoint = "redetect" /\ ~Updates(r))
             => store' = store
      ]_vars

(***************************************************************************)
(* SpecFresh: callers, anonymous or signed in, send requests on a page     *)
(* whose text names an unregistered brand; the registry grows by new-brand *)
(* resolution between whitelist checks, and the clock advances.            *)
(***************************************************************************)

FreshEndpoints == {"check_phish_simple", "detect_v2"}
FreshUrls == {UrlPay, UrlNew}
FreshCrps == {"false"}
FreshFavs == {None}
FreshTexts == {BrandNew}
FreshDiscs == {DomNew}

NextFresh ==
    \/ \E r \in Runs :
          \/ \E ep \in FreshEndpoints, url \in FreshUrls, u \in Users :
                Start(r, ep, url, u)
          \/ get_final_url(r, run[r].url)
          \/ Pipeline(r, FreshCrps, FreshFavs, FreshTexts)
          \/ Chain(r, FreshCrps, FreshFavs, FreshTexts)
          \/ NewBrand(r, FreshDiscs)
    \/ Tick

SpecFresh == Init /\ [][NextFresh]_vars

\* The registry holds a record whose official domain is the root domain of url.
RegisteredRoot(url) ==
    \E b \in registry : /\ Len(b.official_domain) > 0
                         /\ Lower(b.official_domain) = extract_root_domain(url)

\* The step in which the run in slot r gets the answer of check_whitelist.
ChecksWhitelist(r) ==
    /\ run[r].pc \in {"whitelist", "c_whitelist"}
    /\ run'[r].pc \notin {"whitelist", "c_whitelist", "raised"}
    /\ run'[r].wl # Failed

\* C16. Whitelist freshness: a whitelist check made while no other call is
\* in progress and the registry holds a record for the root domain of the
\* run's URL finds the URL whitelisted, whenever the brand list was last
\* loaded.
C16_WhitelistFresh ==
    [][ \A r \in Runs :
          (/\ ChecksWhitelist(r)
           /\ \A o \in Runs \ {r} : run[o].pc \in {"idle", "done", "raised"}
           /\ RegisteredRoot(run[r].final_url))
          => run'[r].wl # NoRecord
      ]_vars

\* The registry holds a record for the brand name.
NameRegistered(name) == \E b \in registry : b.brand_name = name

\* The step in which save_brand_info in slot r makes its existence check.
ChecksExisting(r) == run[r].pc = "nb_check" /\ run'[r].pc # "nb_check"

\* Another call has returned after resolving the same new name.
ResolvedBefore(r) ==
    \E o \in Runs \ {r} :
        /\ run[o].pc = "done"
        /\ run[o].text_out = run[r].text_out
        /\ run[o].db2 # NotCalled

\* C17. Sequential idempotence of brand resolution: save_brand_info for a
\* name that has a record inserts nothing and the lookup that follows
\* returns a record the registry already held; and save_brand_info that
\* starts its check after another resolution of the same new name has
\* finished inserts nothing either.
C17_ResolutionIdempotent ==
    [][ \A r \in Runs :
          /\ (ChecksExisting(r) /\ NameRegistered(run[r].text_out))
             => run'[r].pc = "nb_recheck" /\ registry' = registry
          /\ (/\ run[r].pc = "nb_recheck" /\ run'[r].pc = "save"
              /\ run[r].existing = "true"
              /\ NameRegistered(run[r].text_out))
             => /\ registry' = registry
                /\ \E b \in registry : /\ b.brand_name = run[r].text_out
                                        /\ run'[r].db2 = [name |-> b.brand_name,
                                                          domain |-> b.official_domain]
          /\ (ChecksExisting(r) /\ ResolvedBefore(r))
             => run'[r].pc # "nb_insert"
      ]_vars

(***************************************************************************)
(* SpecQueue: overlapping requests on /detect, more than the gate admits;  *)
(* a run may raise inside the gate.  An admitted run keeps taking steps,   *)
(* and a waiter of the semaphore is woken when a permit is free.           *)
(***************************************************************************)

QueueEndpoints == {"detect"}
QueueUrls == {UrlPay, UrlNew}
QueueCrps == {"false"}
QueueFavs == {None}
QueueTexts == {None, BrandPay}

\* The steps of the handler in slot r once the request has arrived.
StepQueue(r) ==
    \/ get_final_url(r, run[r].url)
    \/ Pipeline(r, QueueCrps, QueueFavs, QueueTexts)
    \/ check_whitelist_fails(r)

NextQueue ==
    \E r \in Runs :
        \/ \E ep \in QueueEndpoints, url \in QueueUrls : Start(r, ep, url, NoUser)
        \/ AcquireGate(r)
        \/ StepQueue(r)

SpecQueue ==
    /\ Init
    /\ [][NextQueue]_vars
    /\ \A r \in Runs : WF_vars(AcquireGate(r) \/ StepQueue(r))

\* The runs that hold a permit of detection_semaphore.
Holders == {r \in Runs : run[r].pc # "idle" /\ run[r].holds_gate}

\* The request in slot r waits at the gate.
Suspended(r) == run[r].pc = "gate"

\* C18. Gate queueing and release: a request at the gate stays there until
\* it is admitted (it is never rejected); permits are conserved, each holder
\* giving its permit back once when its run returns or raises, so that all
\* permits are free when no run is in progress; and every suspended request
\* is eventually admitted.
C18_GateQueueing ==
    /\ [](permits + Cardinality(Holders) = CONCURRENT_DETECTION_LIMIT)
    /\ [](\A r \in Runs : (run[r].pc \in {"idle", "done", "raised"}) => r \notin Holders)
    /\ []((\A r \in Runs : run[r].pc \in {"idle", "done", "raised"})
           => permits = CONCURRENT_DETECTION_LIMIT)
    /\ [][\A r \in Runs : Suspended(r) => run'[r].pc \in {"gate", "resolve"}]_vars
    /\ \A r \in Runs : Suspended(r) ~> (r \in Holders)

\* A request waits at the gate while another run holds the only permit.
C18_Witness ==
    \E r \in Runs :
        /\ Suspended(r)
        /\ permits = 0
        /\ \E o \in Runs \ {r} : o \in Holders

(***************************************************************************)
(* SpecLookup: the cache lookups of /check_phish_simple, at the endpoint   *)
(* and inside the pipeline, over every detection store of up to MaxRows    *)
(* rows whose ages lie around the TTL.                                     *)
(***************************************************************************)

MaxRows == 3
LookupUrls == {UrlPay, UrlNew}
LookupAges == {0, CACHE_TTL_HOURS - 1, CACHE_TTL_HOURS, CACHE_TTL_HOURS + 1}
LookupNow == CACHE_TTL_HOURS + 1

\* A row as save_detection_result inserts it for a verdict without a brand.
LookupRow(id, url, user_id, age) ==
    [id             |-> id,
     user_id        |-> user_id,
     url            |-> url,
     is_phish       |-> 0,
     reason         |-> <<"no_brand_detected">>,
     detected_brand |-> "",
     is_crp         |-> FALSE,
     created_at     |-> LookupNow - age]

\* The stores of k rows: ids are given out in order of insertion.
LookupStores(k) ==
    {{LookupRow(i, u[i], s[i], a[i]) : i \in 1..k} :
        u \in [1..k -> LookupUrls], s \in [1..k -> Users],
        a \in {f \in [1..k -> LookupAges] :
                  \A i, j \in 1..k : i < j => f[i] >= f[j]}}

InitLookup ==
    /\ registry = InitRegistry
    /\ next_brand_id = 2
    /\ unique_name = TRUE
    /\ \E k \in 0..MaxRows : store \in LookupStores(k) /\ next_id = k + 1
    /\ now = LookupNow
    /\ brands_cache = <<>>
    /\ last_update_time = -1
    /\ permits = CONCURRENT_DETECTION_LIMIT
    /\ calls = 0
    /\ run = [r \in Runs |-> Idle]

NextLookup ==
    \/ \E url \in LookupUrls, u \in Users : Start(1, "check_phish_simple", url, u)
    \/ get_final_url(1, run[1].url)
    \/ CacheLookup(1)

SpecLookup == InitLookup /\ [][NextLookup]_vars

\* The run in slot r makes a cache lookup in this step.
Looks(r) ==
    /\ run'[r] # run[r]
    /\ Len(run'[r].lookup_key) > IF run[r].pc \in {"idle", "done", "raised"} THEN 0
                                  ELSE Len(run[r].lookup_key)

\* The rows of a key and scope that are younger than the TTL.
Young(url, user_id) ==
    {row \in store : /\ row.url = url
                     /\ row.user_id = user_id
                     /\ now - row.created_at < CACHE_TTL_HOURS}

\* C19. Cache lookup: a lookup never answers with a row older than the TTL
\* or with a row of another key or scope; it answers whenever a row of the
\* key and scope is younger than the TTL; and the row it answers with is
\* one stored no earlier than any other such row.
C19_LookupLive ==
    [][ \A r \in Runs :
          Looks(r)
          => LET key   == run'[r].lookup_key[Len(run'[r].lookup_key)]
                 scope == run'[r].lookup_scope[Len(run'[r].lookup_scope)]
                 row   == run'[r].hit_row
             IN  /\ run'[r].cache_hit # "none"
                    => /\ row \in store
                       /\ row.url = key
                       /\ row.user_id = scope
                       /\ now - row.created_at <= CACHE_TTL_HOURS
                       /\ \A o \in Young(key, scope) : o.created_at <= row.created_at
                 /\ Young(key, scope) # {} => run'[r].cache_hit # "none"
      ]_vars

\* A lookup was answered while the key and scope had a second row younger
\* than the TTL, stored earlier, and a row older than the TTL.
C19_Witness ==
    /\ run[1].pc = "done"
    /\ run[1].cache_hit # "none"
    /\ \E o \in Young(run[1].hit_row.url, run[1].hit_row.user_id) :
          o.created_at < run[1].hit_row.created_at
    /\ \E e \in store : /\ e.url = run[1].hit_row.url
                         /\ e.user_id = run[1].hit_row.user_id
                         /\ now - e.created_at > CACHE_TTL_HOURS

\* The call in slot r was answered from the cache with the row that the
\* run in slot o stored.
AnsweredWith(r, o) ==
    /\ run[r].pc = "done" /\ run[r].cache_hit # "none"
    /\ run[o].pc = "done" /\ run[o].stored # NoRow
    /\ run[r].hit_row = run[o].stored

\* C20. Cache round trip: a verdict answered from the cache has the
\* is_phish, reason, detected_brand (absence included) and CRP flag that the
\* run which stored the row returned to its caller.
C20_CacheRoundTrip ==
    \A r, o \in Runs :
        AnsweredWith(r, o)
        => /\ run[r].result.is_phish = run[o].result.is_phish
           /\ run[r].result.reason = run[o].result.reason
           /\ run[r].result.detected_brand = run[o].result.detected_brand
           /\ run[r].result.is_crp = run[o].result.is_crp

(***************************************************************************)
(* SpecFusion: requests in both forms on pages whose favicon lookup may    *)
(* fail to load its index (BrandLogoMatcher() raises) or find no brand.    *)
(***************************************************************************)

FusionEndpoints == {"detect_phishing_manual", "detect_v2"}
FusionUrls == {UrlPay, UrlNew}
FusionCrps == {"false"}
FusionFavs == {None, "exc", BrandPay}
FusionTexts == {None, BrandPay}

NextFusion ==
    \E r \in Runs :
        \/ \E ep \in FusionEndpoints, url \in FusionUrls : Start(r, ep, url, NoUser)
        \/ get_final_url(r, run[r].url)
        \/ Pipeline(r, FusionCrps, FusionFavs, FusionTexts)
        \/ Chain(r, FusionCrps, FusionFavs, FusionTexts)

SpecFusion == Init /\ [][NextFusion]_vars

\* The run in slot r has consulted the favicon lookup of brand fusion.
ReachedFusion(r) == run[r].pc # "idle" /\ run[r].fav_out # "not_called"

\* C21. Brand-fusion failure falls through, in both forms: no run raises
\* because the favicon or the text lookup raised; after a favicon failure
\* the text lookup is consulted; and a run in which neither lookup gave a
\* brand returns is_phish = 0, no_brand_detected and no brand.
C21_FusionFallsThrough ==
    \A r \in Runs :
        ReachedFusion(r)
        => /\ run[r].pc = "raised"
              => run[r].fav_out # "exc" /\ run[r].text_out # "exc"
           /\ (run[r].fav_out = "exc" /\ run[r].pc \in {"save", "done", "raised"})
              => run[r].text_out # "not_called"
           /\ (/\ run[r].pc = "done"
               /\ ~IsBrand(run[r].fav_out)
               /\ ~IsBrand(run[r].text_out))
              => /\ run[r].result.is_phish = 0
                 /\ run[r].result.reason = <<"no_brand_detected">>
                 /\ run[r].result.detected_brand = None

\* The step in which the call in slot r comes out of capture_and_save_result
\* without a stored row: the INSERT failed.
InsertFails(r) ==
    /\ run[r].pc = "save"
    /\ run'[r] # run[r]
    /\ run'[r].stored = NoRow

\* C22. Persistence failure degrades: a run whose INSERT fails returns, and
\* does not raise, the verdict it had computed (the one a successful insert
\* would have returned with the row's id added) without a detection_id, and
\* the store stays as it was, so that every lookup answers as before.
C22_PersistenceDegrades ==
    [][ \A r \in Runs :
          InsertFails(r)
          => /\ run'[r].pc = "done"
             /\ run'[r].result.is_phish = run[r].result.is_phish
             /\ run'[r].result.reason = run[r].result.reason
             /\ run'[r].result.detected_brand = run[r].result.detected_brand
             /\ run'[r].result.crp_detected = run[r].result.crp_detected
             /\ run'[r].result.detection_id = 0
             /\ store' = store
      ]_vars

\* A call whose INSERT failed has returned its verdict, and a later lookup
\* of its key under its scope has missed.
C22_Witness ==
    \E r \in Runs : \E o \in Runs \ {r} :
        /\ run[r].pc = "done" /\ run[r].cache_hit = "none"
        /\ run[r].save_attempted /\ run[r].stored = NoRow
        /\ run[r].result.is_phish = 1
        /\ run[o].pc \notin {"idle", "done", "raised"}
        /\ run[o].cache_hit = "none"
        /\ run[o].user_id = run[r].user_id
        /\ Len(run[o].lookup_key) > 0
        /\ run[o].lookup_key[1] = url_to_store(run[r])
        /\ store = {}

(***************************************************************************)
(* SpecResolve: get_final_url on every URL with every outcome of the       *)
(* fetch: an error, or a response after up to MaxHops earlier responses.   *)
(***************************************************************************)

MaxHops == 2
ResolveEndpoints == {"detect_phishing_manual", "detect_v2"}

\* The histories of a fetch of url: empty, or the responses to the request
\* for url and to the requests for the URLs it was redirected to.
Histories(url) ==
    {<<>>} \cup UNION {{<<url>> \o t : t \in [1..n -> Urls]} : n \in 0..(MaxHops - 1)}

Responses(url) ==
    {FetchError} \cup {Response(f, h) : f \in Urls, h \in Histories(url)}

NextResolve ==
    \E r \in Runs :
        \/ \E ep \in ResolveEndpoints, url \in Urls : Start(r, ep, url, NoUser)
        \/ /\ run[r].pc = "resolve"
           /\ \E response \in Responses(run[r].url) : get_final_url_of(r, response)

SpecResolve == Init /\ [][NextResolve]_vars

\* get_final_url has returned to the run in slot r.
Resolved(r) == run[r].pc \in {"cache", "c_whitelist"}

\* C23. Redirect descriptor: has_redirect holds exactly when final_url
\* differs from the original URL, and exactly when redirect_chain is not
\* empty, and then the chain starts with the original URL and ends with
\* final_url; after a failed fetch the original URL comes back with
\* has_redirect false, an empty chain and the suspicion computed for the
\* original URL; and get_final_url never raises.
C23_RedirectDescriptor ==
    \A r \in Runs :
        /\ run[r].pc # "raised"
        /\ Resolved(r)
           => /\ run[r].has_redirect <=> (run[r].final_url # run[r].url)
              /\ run[r].has_redirect <=> (run[r].redirect_chain # <<>>)
              /\ run[r].redirect_chain # <<>>
                 => /\ Head(run[r].redirect_chain) = run[r].url
                    /\ run[r].redirect_chain[Len(run[r].redirect_chain)] = run[r].final_url
              /\ run[r].fetch_error
                 => /\ run[r].final_url = run[r].url
                    /\ ~run[r].has_redirect
                    /\ run[r].redirect_chain = <<>>
              /\ run[r].suspicious = is_suspicious_domain(run[r].url)

\* Fetches of a suspicious URL have returned: one failed, one was redirected
\* through another URL.
C23_Witness ==
    /\ Resolved(1) /\ Resolved(2)
    /\ run[1].fetch_error /\ run[1].suspicious[1]
    /\ run[2].has_redirect /\ Len(run[2].redirect_chain) > 3

(***************************************************************************)
(* SpecPurge: the admin's purge of the detection store, run between the    *)
(* steps of two overlapping /check_phish_simple calls, over stores whose   *)
(* rows have ages around the TTL, while the clock advances by the hour.    *)
(***************************************************************************)

PurgeHours == 1
PurgeUrls == {UrlNew}
PurgeCrps == {"false"}
PurgeFavs == {None}
PurgeTexts == {None, BrandPay}

\* The DELETE of a purge that also removes the rows stored at the cutoff.
clear_expired_cache_at_cutoff ==
    /\ store' = {row \in store : ~(row.created_at <= now - CACHE_TTL_HOURS)}
    /\ UNCHANGED <<registry, next_brand_id, unique_name, next_id, now,
                   brands_cache, last_update_time, permits, calls, run>>

\* clear_expired_cache: DELETE ... WHERE created_at < :cutoff_time.
clear_expired_cache ==
    /\ store' = {row \in store : ~(row.created_at < now - CACHE_TTL_HOURS)}
    /\ UNCHANGED <<registry, next_brand_id, unique_name, next_id, now,
                   brands_cache, last_update_time, permits, calls, run>>

\* An hour passes.
Hour ==
    /\ now < LookupNow + PurgeHours
    /\ now' = now + 1
    /\ UNCHANGED <<registry, next_brand_id, unique_name, store, next_id,
                   brands_cache, last_update_time, permits, calls, run>>

InitPurge ==
    /\ registry = InitRegistry
    /\ next_brand_id = 2
    /\ unique_name = TRUE
    /\ \E k \in 0..MaxRows :
          /\ store \in {s \in LookupStores(k) :
                           \A row \in s : row.url \in PurgeUrls /\ row.user_id = NoUser}
          /\ next_id = k + 1
    /\ now = LookupNow
    /\ brands_cache = <<>>
    /\ last_update_time = -1
    /\ permits = CONCURRENT_DETECTION_LIMIT
    /\ calls = 0
    /\ run = [r \in Runs |-> Idle]

NextPurge ==
    \/ \E r \in Runs :
          \/ \E url \in PurgeUrls : Start(r, "check_phish_simple", url, NoUser)
          \/ \E f \in PurgeUrls : get_final_url(r, f)
          \/ Pipeline(r, PurgeCrps, PurgeFavs, PurgeTexts)
    \/ clear_expired_cache
    \/ Hour

SpecPurge == InitPurge /\ [][NextPurge]_vars

\* The rows older than the TTL.
Expired == {row \in store : now - row.created_at > CACHE_TTL_HOURS}

\* C24. Purge safety: a row leaves the store only when its age exceeds the
\* TTL, so no row that a lookup at that instant would answer with, and no
\* row that a run has just stored, is removed; after a purge no row older
\* than the TTL remains; and a lookup, also one made right after or right
\* before a purge, never answers with a row older than the TTL.
C24_PurgeSafety ==
    [][ /\ store \ store' \subseteq Expired
        /\ \A url \in PurgeUrls, u \in Users :
              get_cached_result(url, u) \cap (store \ store') = {}
        /\ clear_expired_cache
           => \A row \in store' : now' - row.created_at <= CACHE_TTL_HOURS
        /\ \A r \in Runs :
              /\ Looks(r) /\ run'[r].cache_hit # "none"
                 => /\ run'[r].hit_row \in store
                    /\ run'[r].hit_row \notin Expired
              /\ run'[r] # run[r] /\ run'[r].pc = "done" /\ run'[r].cache_hit = "none"
                 /\ run'[r].result.detection_id > 0
                 => \E row \in store' : /\ row.id = run'[r].result.detection_id
                                        /\ row.created_at = now
      ]_vars

\* A purge has removed a row while a row stored exactly one TTL ago is still
\* there; one call was answered from the store with a row that is still
\* there, and the other stored a row that is still there.
C24_Witness ==
    /\ \E id \in 1..(next_id - 1) : \A row \in store : row.id # id
    /\ \E row \in store : now - row.created_at = CACHE_TTL_HOURS
    /\ Expired = {}
    /\ \E r \in Runs : \E o \in Runs \ {r} :
          /\ run[r].pc = "done" /\ run[r].cache_hit # "none"
          /\ run[r].hit_row \in store
          /\ run[o].pc = "done" /\ run[o].cache_hit = "none"
          /\ \E row \in store : row.id = run[o].result.detection_id

\* C25. Gate scope: redirect resolution and the pipeline's cache lookup of a
\* run are made without holding the admission gate, which is held only
\* around the CRP and brand-fusion stages.
C25_GateScope ==
    \A r \in Runs :
        run[r].pc \in {"resolve", "cache"} => ~run[r].holds_gate

(***************************************************************************)
(* SpecRegistry: two overlapping requests, on an endpoint of either form,  *)
(* that between them end on every path: a cache hit, a suspicious           *)
(* redirect, the whitelist, a favicon verdict, a text verdict for a         *)
(* registered and for an unregistered brand, and no brand; registry         *)
(* lookups may fail.                                                        *)
(***************************************************************************)

RegistryEndpoints == {"detect_phishing_manual", "detect_v2"}
RegistryUrls == {UrlTk, UrlPay, UrlNew}
RegistryCrps == {"false"}
RegistryFavs == {None, BrandPay}
RegistryTexts == {None, BrandPay, BrandNew}
RegistryDiscs == {NoDomain, DomNew}

NextRegistry ==
    \E r \in Runs :
        \/ \E ep \in RegistryEndpoints, url \in RegistryUrls : Start(r, ep, url, NoUser)
        \/ /\ run[r].pc = "resolve"
           /\ get_final_url(r, IF run[r].url = UrlTk THEN UrlNew ELSE run[r].url)
        \/ Suspicious(r, RegistryCrps, RegistryFavs, RegistryTexts)
        \/ Pipeline(r, RegistryCrps, RegistryFavs, RegistryTexts)
        \/ Chain(r, RegistryCrps, RegistryFavs, RegistryTexts)
        \/ NewBrand(r, RegistryDiscs)
        \/ check_brand_exists_fails(r)
        \/ save_brand_info_fails(r)

SpecRegistry == Init /\ [][NextRegistry]_vars

\* The run of rec has had save_brand_info insert a record.
Inserted(rec) == rec.existing = "false" /\ rec.save_success = "true"

\* The run of rec ended on a path other than the text path for a brand
\* without a record.
EndedElsewhere(rec) ==
    /\ rec.pc = "done"
    /\ \/ rec.cache_hit # "none"
       \/ IsSuspiciousReason(rec.result.reason)
       \/ rec.result.reason = <<"whitelisted">>
       \/ rec.result.reason \in {<<"favicon_brand_domain_match">>,
                                 <<"favicon_brand_domain_mismatch">>}
       \/ rec.db1 \notin {NotCalled, NoRecord, Failed}
       \/ rec.result.reason = <<"no_brand_detected">>

NextRules ==
    \E r \in Runs :
        \/ \E url \in SuspectUrls : Start(r, "detect_phishing_manual", url, NoUser)
        \/ /\ run[r].pc = "resolve"
           /\ get_final_url(r, run[r].url)

SpecRules == Init /\ [][NextRules]_vars

\* str.endswith
EndsWith(s, p) == Len(s) >= Len(p) /\ SubSeq(s, Len(s) - Len(p) + 1, Len(s)) = p

\* The host is one of the listed domains or a subdomain of one.
UnderListedDomain(domain) ==
    \E i \in 1..Len(suspicious_patterns) :
        \/ domain = suspicious_patterns[i]
        \/ EndsWith(domain, <<".">> \o suspicious_patterns[i])

\* The labels of the host in front of its registrable name.
SubdomainLabels(domain) ==
    LET labels == Split(domain, ".")
    IN  {labels[i] : i \in 1..(Len(labels) - 2)}

\* A label without an allow-listed word that is consonant-heavy or long.
RandomLabel(label) ==
    /\ ~ \E w \in allow_words : IsSubstring(w, label)
    /\ \/ Len(label) >= 6 /\ CountIn(label, Consonants) > CountIn(label, Vowels) * 2
       \/ Len(label) >= 8

\* C27. Suspicious-host rule set: is_suspicious_domain(url) is true exactly
\* when the host is an IP literal, or is one of the listed domains or a
\* subdomain of one, or has a subdomain label that is random-looking; a host
\* that only contains a listed pattern inside another name, and the
\* registrable name of a host without a subdomain, are not suspicious.
C27_SuspiciousRuleSet ==
    \A r \in Runs :
        Resolved(r)
        => LET domain == Lower(Netloc(run[r].url))
           IN  run[r].suspicious[1]
               <=> \/ ip_pattern(domain)
                   \/ UnderListedDomain(domain)
                   \/ \E label \in SubdomainLabels(domain) : RandomLabel(label)

(***************************************************************************)
(* SpecStub: requests in which the text lookup names a brand without a     *)
(* record, while domain discovery finds nothing or finds a new domain.     *)
(***************************************************************************)

StubEndpoints == {"detect_phishing_manual", "detect_v2"}
StubUrls == {UrlPay, UrlNew, UrlSub}
StubCrps == {"false"}
StubFavs == {None}
StubTexts == {BrandNew}
StubDiscs == {NoDomain, DomNew}

NextStub ==
    \E r \in Runs :
        \/ \E ep \in StubEndpoints, url \in StubUrls : Start(r, ep, url, NoUser)
        \/ /\ run[r].pc = "resolve"
           /\ get_final_url(r, run[r].url)
        \/ Pipeline(r, StubCrps, StubFavs, StubTexts)
        \/ Chain(r, StubCrps, StubFavs, StubTexts)
        \/ NewBrand(r, StubDiscs)

SpecStub == Init /\ [][NextStub]_vars

\* The domain-match reasons of the text path.
TextMatchReasons ==
    {<<"brand_domain_match">>, <<"text_brand_domain_match">>,
     <<"text", "_new_brand_detected_and_domain_match">>}

\* C28. No match without an official domain: a run returns is_phish = 0 with
\* a domain-match reason on the text path only when the registry has a
\* record of the detected brand whose official_domain is not empty and is
\* contained in the URL's domain; so a brand registered without a domain
\* never yields a domain-match verdict.
C28_NoMatchWithoutDomain ==
    \A r \in Runs :
        ( /\ run[r].pc = "done"
          /\ run[r].cache_hit = "none"
          /\ run[r].result.is_phish = 0
          /\ run[r].result.reason \in TextMatchReasons )
        => \E b \in registry :
              /\ b.brand_name = run[r].result.detected_brand
              /\ Len(b.official_domain) > 0
              /\ IsSubstring(b.official_domain, extract_domain(run[r].final_url))

\* C29. Re-detection re-evaluates: a /redetect call that writes to its row
\* has run the decision stages on the freshly collected content; what it
\* writes is not the verdict of a cached row.
C29_RedetectReevaluates ==
    [][ \A r \in Runs :
          Updates(r)
          => /\ run[r].cache_hit = "none"
             /\ run[r].hit_row = NoRow
             /\ run[r].wl # NotCalled
      ]_vars

(***************************************************************************)
(* BrandLoader, step by step.  A call of get_brand_list or of clear_cache  *)
(* occupies a slot; BrandLoader._lock is held by the call that is inside   *)
(* the registry query, the only await inside a locked region.              *)
(***************************************************************************)

\* A call of get_brand_list: current_time is read once, on entry.  loads
\* counts the loads other calls have completed since this one was made.
LoaderCall(pc) ==
    [pc           |-> pc,
     endpoint     |-> "get_brand_list",
     current_time |-> now,
     queried      |-> pc = "query",
     loads        |-> 0,
     result       |-> <<>>]

ClearCall(pc) == [pc |-> pc, endpoint |-> "clear_cache"]

\* BrandLoader._lock.locked()
Locked == \E r \in Runs : run[r].pc = "query"
\* Calls waiting in BrandLoader._lock.acquire()
Waiting == {r \in Runs : run[r].pc \in {"lock_wait", "clear_wait"}}

\* The cache test of get_brand_list, made with the caller's current_time.
cache_valid(current_time) ==
    /\ brands_cache # <<>>
    /\ last_update_time # -1
    /\ (current_time - last_update_time) * 3600 < BRAND_CACHE_TTL

\* get_brand_list up to its first await: the cache test, and when it fails
\* the acquire, which returns at once if the lock is free and nobody waits;
\* the test under the lock then fails as well and the query is sent.
get_brand_list_enter(r) ==
    /\ run[r].pc \in {"idle", "done", "raised"}
    /\ calls < MaxCalls
    /\ calls' = calls + 1
    /\ Upd(r, IF cache_valid(now)
              THEN [LoaderCall("done") EXCEPT !.result = brands_cache]
              ELSE IF ~Locked /\ Waiting = {} THEN LoaderCall("query")
              ELSE LoaderCall("lock_wait"))
    /\ UNCHANGED <<registry, next_brand_id, unique_name, store, next_id, now,
                   brands_cache, last_update_time, permits>>

\* A call that sends the query whenever it has got the lock.
get_brand_list_locked_no_recheck(r) ==
    /\ run[r].pc = "lock_wait"
    /\ ~Locked
    /\ Upd(r, [run[r] EXCEPT !.pc = "query", !.queried = TRUE])
    /\ UNCHANGED <<registry, next_brand_id, unique_name, store, next_id, now,
                   brands_cache, last_update_time, permits, calls>>

\* get_brand_list when the lock is granted: the cache test again, with the
\* current_time of entry; the cached list, or the query.
get_brand_list_locked(r) ==
    /\ run[r].pc = "lock_wait"
    /\ ~Locked
    /\ Upd(r, IF cache_valid(run[r].current_time)
              THEN [run[r] EXCEPT !.pc = "done", !.result = brands_cache]
              ELSE [run[r] EXCEPT !.pc = "query", !.queried = TRUE])
    /\ UNCHANGED <<registry, next_brand_id, unique_name, store, next_id, now,
                   brands_cache, last_update_time, permits, calls>>

\* The query has answered: the cache is replaced, stamped with the
\* current_time of entry, and the lock is released.
get_brand_list_query(r) ==
    /\ run[r].pc = "query"
    /\ brands_cache' = <<LoadBrands>>
    /\ last_update_time' = run[r].current_time
    /\ run' = [o \in Runs |->
                 IF o = r
                 THEN [run[r] EXCEPT !.pc = "done", !.result = <<LoadBrands>>]
                 ELSE IF run[o].pc = "lock_wait"
                 THEN [run[o] EXCEPT !.loads = 1]
                 ELSE run[o]]
    /\ UNCHANGED <<registry, next_brand_id, unique_name, store, next_id, now,
                   permits, calls>>

\* The query has failed: BrandDataError, and the lock is released.
get_brand_list_raises(r) ==
    /\ run[r].pc = "query"
    /\ Upd(r, [run[r] EXCEPT !.pc = "raised"])
    /\ UNCHANGED <<registry, next_brand_id, unique_name, store, next_id, now,
                   brands_cache, last_update_time, permits, calls>>

\* clear_cache: under the lock, without an await, both fields become None.
clear_cache(r) ==
    /\ \/ /\ run[r].pc \in {"idle", "done", "raised"}
          /\ calls < MaxCalls
          /\ calls' = calls + 1
          /\ IF ~Locked /\ Waiting = {}
             THEN /\ Upd(r, ClearCall("done"))
                  /\ brands_cache' = <<>>
                  /\ last_update_time' = -1
             ELSE /\ Upd(r, ClearCall("clear_wait"))
                  /\ UNCHANGED <<brands_cache, last_update_time>>
       \/ /\ run[r].pc = "clear_wait"
          /\ ~Locked
          /\ Upd(r, ClearCall("done"))
          /\ brands_cache' = <<>>
          /\ last_update_time' = -1
          /\ calls' = calls
    /\ UNCHANGED <<registry, next_brand_id, unique_name, store, next_id, now,
                   permits>>

(***************************************************************************)
(* SpecLoader: overlapping calls of get_brand_list and clear_cache while   *)
(* the clock advances.                                                     *)
(***************************************************************************)

NextLoader ==
    \/ \E r \in Runs :
          \/ get_brand_list_enter(r)
          \/ get_brand_list_locked(r)
          \/ get_brand_list_query(r)
          \/ get_brand_list_raises(r)
          \/ clear_cache(r)
    \/ Tick

SpecLoader == Init /\ [][NextLoader]_vars

====
